---- MODULE Spec2Model ----
(***************************************************************************)
(* A model of the AIAgent orchestration loop (src/src/agent.ts), of the    *)
(* interactive CLI that drives it (src/src/index.ts) and of the test run   *)
(* coordinator (runTestCase / runAllTests).                                *)
(*                                                                         *)
(* Three specifications share the agent's state and its method segments:   *)
(*   Spec     one client calling the agent's methods one after the other   *)
(*   SpecCli  main() of index.ts: readline and signal handlers             *)
(*   SpecRun  runAllTests over a list of test cases                        *)
(*                                                                         *)
(* An async method is cut at its awaits: the code between two awaits runs  *)
(* without interruption on the single JavaScript thread and is one step.   *)
(***************************************************************************)
EXTENDS Integers, Sequences, FiniteSets, TLC

(***************************************************************************)
(* Bounds of the model.                                                    *)
(***************************************************************************)
\* chat calls accepted by one agent
MaxChats == 2
\* initialize calls made by the sequential client
MaxInits == 2
\* test cases handed to runAllTests
MaxTests == 2
\* input lines read by the interactive CLI
MaxLines == 3
\* changes the sequential client makes to the values the getters returned
MaxEdits == 1
\* close calls made by the sequential client
MaxCloses == 1
\* messages of a history handed to truncateHistory
MaxHistory == 2
\* applications of truncateHistory to one history
MaxApplications == 2
\* close calls one client makes in sequence
MaxCloseCalls == 2
\* steps of a step list handed to the trace capture
MaxSteps == 2
\* white-space pieces in a row around a JSON text
MaxBlanks == 1
\* interrupt signals sent to the interactive CLI
MaxSignals == 1

(***************************************************************************)
(* JavaScript values.  A string is the sequence of its characters.         *)
(***************************************************************************)
Undefined == [t |-> "undefined"]
Null == [t |-> "null"]
Num(n) == [t |-> "num", n |-> n]
Bool(b) == [t |-> "bool", b |-> b]
Str(s) == [t |-> "str", s |-> s]
Arr(a) == [t |-> "arr", a |-> a]
Obj(f) == [t |-> "obj", f |-> f]

\* ToBoolean
Truthy(v) ==
  CASE v.t = "undefined" -> FALSE
    [] v.t = "null" -> FALSE
    [] v.t = "num" -> v.n # 0
    [] v.t = "bool" -> v.b
    [] v.t = "str" -> Len(v.s) > 0
    [] OTHER -> TRUE

\* a || b
JsOr(a, b) == IF Truthy(a) THEN a ELSE b

\* v?.k : undefined on null and undefined, the property otherwise
OptField(v, k) ==
  IF v.t = "obj" /\ k \in DOMAIN v.f THEN v.f[k] ELSE Undefined

\* a?.[i] with a 0-based index i
OptIndex(v, i) ==
  IF v.t = "arr" /\ i + 1 \in DOMAIN v.a THEN v.a[i + 1] ELSE Undefined

\* v.k throws a TypeError on null and undefined
Throws(v) == v.t \in {"undefined", "null"}

Rep(c, n) == [i \in 1..n |-> c]

(***************************************************************************)
(* Tool names and TOKEN_OPTIMIZATION (src/src/helpers.ts).                 *)
(***************************************************************************)
queryVCData == <<"q","u","e","r","y","V","C","D","a","t","a">>
getDatasetContext == <<"g","e","t","D","a","t","a","s","e","t","C","o","n","t","e","x","t">>
listDatasetTables == <<"l","i","s","t","D","a","t","a","s","e","t","T","a","b","l","e","s">>
getTableDetails == <<"g","e","t","T","a","b","l","e","D","e","t","a","i","l","s">>
getQueryExamples == <<"g","e","t","Q","u","e","r","y","E","x","a","m","p","l","e","s">>

MAX_TOOL_RESULT_LENGTH == 1000
TRUNCATION_SUFFIX ==
  <<"\n","\n","[",".",".",".","c","o","n","t","e","n","t"," ",
    "t","r","u","n","c","a","t","e","d"," ","f","o","r"," ",
    "e","f","f","i","c","i","e","n","c","y","]">>
TOOLS_TO_TRUNCATE == {queryVCData}

(***************************************************************************)
(* truncateHistory (agent.ts 485-532).                                     *)
(***************************************************************************)
\* variant of the code: the end of a long string is kept, not its beginning
truncateStringKeepsEnd(str) ==
  IF Len(str) > MAX_TOOL_RESULT_LENGTH
    THEN SubSeq(str, Len(str) - MAX_TOOL_RESULT_LENGTH + 1, Len(str))
           \o TRUNCATION_SUFFIX
    ELSE str

truncateString(str) ==
  IF Len(str) > MAX_TOOL_RESULT_LENGTH
    THEN SubSeq(str, 1, MAX_TOOL_RESULT_LENGTH) \o TRUNCATION_SUFFIX
    ELSE str

\* variant of the code: strings inside arrays are left as they are
RECURSIVE truncateDeepSkipsArrays(_)
truncateDeepSkipsArrays(obj) ==
  CASE obj.t = "str" -> Str(truncateString(obj.s))
    [] obj.t = "obj" ->
         Obj([k \in DOMAIN obj.f |-> truncateDeepSkipsArrays(obj.f[k])])
    [] OTHER -> obj

RECURSIVE truncateDeep(_)
truncateDeep(obj) ==
  CASE obj.t = "str" -> Str(truncateString(obj.s))
    [] obj.t = "arr" -> Arr([i \in DOMAIN obj.a |-> truncateDeep(obj.a[i])])
    [] obj.t = "obj" -> Obj([k \in DOMAIN obj.f |-> truncateDeep(obj.f[k])])
    [] OTHER -> obj

\* variant of the code: the results of every named tool are truncated
ShouldTruncateAnyTool(part) ==
  LET toolName == JsOr(OptField(part, "toolName"), Str(<<>>))
  IN  toolName.t = "str" /\ Len(toolName.s) > 0

\* TOOLS_TO_TRUNCATE.has(part.toolName || '')
ShouldTruncate(part) ==
  LET toolName == JsOr(OptField(part, "toolName"), Str(<<>>))
  IN  toolName.t = "str" /\ toolName.s \in TOOLS_TO_TRUNCATE

\* { ...part, result: truncateDeep(part.result) }
TruncatePart(part) ==
  IF ShouldTruncate(part)
    THEN Obj([k \in DOMAIN part.f \cup {"result"} |->
               IF k = "result" THEN truncateDeep(OptField(part, "result"))
                               ELSE part.f[k]])
    ELSE part

TruncateMessage(msg) ==
  IF msg.role = "tool" /\ msg.content.t = "arr"
    THEN [msg EXCEPT !.content =
           Arr([i \in DOMAIN msg.content.a |-> TruncatePart(msg.content.a[i])])]
    ELSE msg

\* variant of the code: the history is also cut to its most recent messages
truncateHistoryLimitsCount(msgs) ==
  LET all == [i \in DOMAIN msgs |-> TruncateMessage(msgs[i])]
  IN  IF Len(all) > 4 THEN SubSeq(all, Len(all) - 3, Len(all)) ELSE all

truncateHistory(msgs) == [i \in DOMAIN msgs |-> TruncateMessage(msgs[i])]

(***************************************************************************)
(* Trace capture of one turn (agent.ts 366-382).                           *)
(***************************************************************************)
\* step.toolCalls && step.toolCalls.length > 0
HasToolCalls(step) ==
  LET tc == OptField(step, "toolCalls")
  IN  tc.t = "arr" /\ Len(tc.a) > 0

\* variant of the code: every call is paired with the first result of its step
ToolDataFirstResult(step, callIndex, stepIndex) ==
  LET call == step.f.toolCalls.a[callIndex + 1]
      toolResult == OptIndex(OptField(step, "toolResults"), 0)
  IN  [toolName |-> OptField(call, "toolName"),
       input |-> JsOr(OptField(toolResult, "input"), OptField(call, "args")),
       output |-> JsOr(OptField(toolResult, "output"), Null),
       stepNumber |-> stepIndex + 1]

\* the record pushed for call number callIndex (0-based) of a step
ToolData(step, callIndex, stepIndex) ==
  LET call == step.f.toolCalls.a[callIndex + 1]
      toolResult == OptIndex(OptField(step, "toolResults"), callIndex)
  IN  [toolName |-> OptField(call, "toolName"),
       input |-> JsOr(OptField(toolResult, "input"), OptField(call, "args")),
       output |-> JsOr(OptField(toolResult, "output"), Null),
       stepNumber |-> stepIndex + 1]

StepTrace(step, stepIndex) ==
  [i \in 1..Len(step.f.toolCalls.a) |-> ToolData(step, i - 1, stepIndex)]

RECURSIVE FlattenFrom(_, _)
FlattenFrom(toolCalls, k) ==
  IF k > Len(toolCalls) THEN <<>>
  ELSE StepTrace(toolCalls[k], k - 1) \o FlattenFrom(toolCalls, k + 1)

\* currentTrace of a generate result
CaptureTrace(result) ==
  IF result.steps.t = "arr" /\ Len(result.steps.a) > 0
    THEN FlattenFrom(SelectSeq(result.steps.a, HasToolCalls), 1)
    ELSE <<>>

\* call.toolName on a call entry that is null or undefined, or step.toolCalls on
\* such a step, raises a TypeError
CaptureThrows(result) ==
  /\ result.steps.t = "arr"
  /\ \E i \in DOMAIN result.steps.a :
        \/ Throws(result.steps.a[i])
        \/ /\ HasToolCalls(result.steps.a[i])
           /\ \E j \in DOMAIN result.steps.a[i].f.toolCalls.a :
                 Throws(result.steps.a[i].f.toolCalls.a[j])

(***************************************************************************)
(* What the reasoning session can return: the results of agent.generate.   *)
(* steps and the message parts are what the AI SDK reports; the code reads *)
(* step.toolCalls, step.toolResults[i].input/.output, call.toolName,       *)
(* call.args, part.toolName and part.result.                               *)
(***************************************************************************)
SqlText == <<"S","E","L","E","C","T"," ","1">>
AnswerText == <<"o","k">>
LongText == Rep("x", MAX_TOOL_RESULT_LENGTH + 1)
SqlArgs == Obj([sql |-> Str(SqlText)])
Rows == Obj([rows |-> Arr(<<Str(LongText), Num(7)>>), truncated |-> Bool(FALSE)])

Call(name, args) == Obj([toolName |-> Str(name), args |-> args])
ToolResult(input, output) == Obj([input |-> input, output |-> output])
Step(calls, results) == Obj([toolCalls |-> Arr(calls), toolResults |-> Arr(results)])
ToolPart(name, result) ==
  Obj([type |-> Str(<<"t","r">>), toolName |-> Str(name), result |-> result])
AssistantMessage == [role |-> "assistant", content |-> Str(AnswerText)]
ToolMessage(parts) == [role |-> "tool", content |-> Arr(parts)]
UserMessage(text) == [role |-> "user", content |-> Str(text)]

\* a turn answered without any tool call
TextOnly ==
  [text |-> Str(AnswerText),
   steps |-> Arr(<<Step(<<>>, <<>>)>>),
   messages |-> <<AssistantMessage>>]

\* one query whose large result is reported, then the answer
OneQuery ==
  [text |-> Str(AnswerText),
   steps |-> Arr(<<Step(<<Call(queryVCData, SqlArgs)>>,
                        <<ToolResult(SqlArgs, Rows)>>),
                   Step(<<>>, <<>>)>>),
   messages |-> <<AssistantMessage,
                  ToolMessage(<<ToolPart(queryVCData, Rows)>>),
                  AssistantMessage>>]

\* a text step first, then a step with two calls whose outputs are 0 and ''
FalsyOutputs ==
  [text |-> Str(AnswerText),
   steps |-> Arr(<<Step(<<>>, <<>>),
                   Step(<<Call(getTableDetails, Obj([table |-> Str(<<"t">>)])),
                          Call(queryVCData, SqlArgs)>>,
                        <<ToolResult(Undefined, Str(<<>>)),
                          ToolResult(SqlArgs, Num(0))>>)>>),
   messages |-> <<AssistantMessage,
                  ToolMessage(<<ToolPart(getTableDetails, Str(<<>>)),
                                ToolPart(queryVCData, Num(0))>>),
                  AssistantMessage>>]

\* two calls and one result; a step without a toolResults field
MissingResults ==
  [text |-> Str(<<>>),
   steps |-> Arr(<<Step(<<Call(queryVCData, SqlArgs),
                          Call(queryVCData, SqlArgs)>>,
                        <<ToolResult(SqlArgs, Bool(FALSE))>>),
                   Obj([toolCalls |-> Arr(<<Call(getDatasetContext, Undefined)>>)])>>),
   messages |-> <<AssistantMessage,
                  ToolMessage(<<ToolPart(queryVCData, Bool(FALSE))>>)>>]

\* a call entry that is null
MalformedCall ==
  [text |-> Str(AnswerText),
   steps |-> Arr(<<Step(<<Null>>, <<>>)>>),
   messages |-> <<AssistantMessage>>]

GenerateResults == {TextOnly, OneQuery, FalsyOutputs, MissingResults, MalformedCall}

\* the user messages the drivers send
Question1 == <<"q","1">>
Question2 == <<"q","2">>

(***************************************************************************)
(* State.                                                                  *)
(***************************************************************************)
VARIABLES
  mcpClient,   \* AIAgent.mcpClient: NoClient, or the connection it holds
  agent,       \* AIAgent.agent: Null, or the reasoning session
  messages,    \* AIAgent.messages
  trace,       \* AIAgent.trace: the list of references to turn-trace arrays
  arrays,      \* the turn-trace arrays that are reachable, by reference
  pending,     \* the async method calls suspended at an await
  held,        \* the value a caller got from getHistory/getTrace/getLastTrace
  driver,      \* the caller's own position (client, CLI or test coordinator)
  opened,      \* number of tool-provider connections established so far
  closeCalls,  \* per connection, how often its close() was invoked
  turns,       \* number of chat calls accepted so far
  owners,      \* per message of the history, the turn that appended it
  last,        \* the sequential client's last chat, clearHistory or edit, with
               \* its outcome and the agent's state when it was made
  stats        \* what the caller saw: chat calls accepted since its last
               \* clearHistory; chat calls accepted and returned since its
               \* last clear of the trace; whether it has called clearHistory
               \* and the value of turns when it last did

vars == <<mcpClient, agent, messages, trace, arrays, pending, held, driver,
          opened, closeCalls, turns, owners, last, stats>>

NoClient == 0
NoHeld == [kind |-> "none"]
NoLast == [op |-> "none"]
ZeroStats ==
  [accepted |-> 0, invoked |-> 0, returned |-> 0, cleared |-> FALSE,
   clearedAt |-> 0]
DEFAULT_MAX_STEPS == 15

AgentInit ==
  /\ mcpClient = NoClient
  /\ agent = Null
  /\ messages = <<>>
  /\ trace = <<>>
  /\ arrays = <<>>
  /\ pending = {}
  /\ held = NoHeld
  /\ opened = 0
  /\ closeCalls = <<>>
  /\ turns = 0
  /\ owners = <<>>
  /\ last = NoLast
  /\ stats = ZeroStats

\* the arrays still referenced by the agent's trace or by the caller's value
Reachable(arrs, tr, h) ==
  LET refs == {tr[i] : i \in DOMAIN tr} \cup
              (IF h.kind = "trace" THEN {h.list[i] : i \in DOMAIN h.list} ELSE {})
  IN  [r \in (DOMAIN arrs) \cap refs |-> arrs[r]]

\* what getTrace shows: the turn traces themselves
TraceValue == [i \in DOMAIN trace |-> arrays[trace[i]]]

(***************************************************************************)
(* AIAgent.initialize (agent.ts 297-338), cut at its two awaits.           *)
(***************************************************************************)
\* up to `await createMCPClient(...)`
InitializeCall(by, config) ==
  /\ pending' = pending \cup
       {[op |-> "initialize", by |-> by, stage |-> "connect", config |-> config]}
  /\ UNCHANGED <<mcpClient, agent, messages, trace, arrays, opened, closeCalls,
                 turns, owners>>

\* createMCPClient resolved: this.mcpClient = client; up to `await tools()`
InitializeConnected(p) ==
  /\ p.op = "initialize" /\ p.stage = "connect"
  /\ opened' = opened + 1
  /\ closeCalls' = Append(closeCalls, 0)
  /\ mcpClient' = opened + 1
  /\ pending' = (pending \ {p}) \cup
       {[op |-> "initialize", by |-> p.by, stage |-> "tools",
         config |-> p.config, conn |-> opened + 1]}
  /\ UNCHANGED <<agent, messages, trace, arrays, turns, owners>>

\* createMCPClient rejected: initialize throws
InitializeConnectFails(p) ==
  /\ p.op = "initialize" /\ p.stage = "connect"
  /\ pending' = pending \ {p}
  /\ UNCHANGED <<mcpClient, agent, messages, trace, arrays, opened, closeCalls,
                 turns, owners>>

\* stepCountIs(config?.maxSteps || 15)
StepCeiling(config) == JsOr(OptField(config, "maxSteps"), Num(DEFAULT_MAX_STEPS)).n

\* tools() resolved: this.agent = new Agent({... tools, stopWhen ...})
InitializeReady(p) ==
  /\ p.op = "initialize" /\ p.stage = "tools"
  /\ agent' = [conn |-> p.conn, maxSteps |-> StepCeiling(p.config)]
  /\ pending' = pending \ {p}
  /\ UNCHANGED <<mcpClient, messages, trace, arrays, opened, closeCalls, turns,
                 owners>>

\* tools() rejected: initialize throws, this.mcpClient stays set
InitializeToolsFail(p) ==
  /\ p.op = "initialize" /\ p.stage = "tools"
  /\ pending' = pending \ {p}
  /\ UNCHANGED <<mcpClient, agent, messages, trace, arrays, opened, closeCalls,
                 turns, owners>>

(***************************************************************************)
(* AIAgent.chat (agent.ts 344-404), cut at `await this.agent.generate`.    *)
(***************************************************************************)
\* if (!this.agent) throw new Error("Agent not initialized ...")
ChatRejected ==
  /\ agent = Null
  /\ UNCHANGED <<mcpClient, agent, messages, trace, arrays, pending, opened,
                 closeCalls, turns, owners>>

\* this.messages.push({role: "user", ...}); up to the await
ChatCall(by, text) ==
  /\ agent # Null
  /\ turns < MaxChats
  /\ turns' = turns + 1
  /\ messages' = Append(messages, UserMessage(text))
  /\ owners' = Append(owners, turns + 1)
  /\ pending' = pending \cup
       {[op |-> "chat", by |-> by, turn |-> turns + 1, text |-> text,
         before |-> messages, session |-> agent]}
  /\ UNCHANGED <<mcpClient, agent, trace, arrays, opened, closeCalls>>

\* this.messages.push(...result.response.messages)
AppendResponse(msgs, result) == msgs \o result.messages

\* the history chat leaves behind: the response appended, then truncateHistory
HistoryAfterTurn(msgs, result) == truncateHistory(AppendResponse(msgs, result))

\* variant of the code: a turn without tool calls pushes no turn trace
TraceAfterTurnSkipsEmpty(tr, ref, currentTrace) ==
  IF currentTrace = <<>> THEN tr ELSE Append(tr, ref)

\* this.trace.push(currentTrace): the reference to the new array is appended
TraceAfterTurn(tr, ref, currentTrace) == Append(tr, ref)

\* variant of the code: truncateHistory cuts the captured outputs as well, in
\* the turn traces of this and of the earlier turns
ChatResolveTruncatesTrace(p, result) ==
  /\ p.op = "chat"
  /\ ~CaptureThrows(result)
  /\ arrays' =
       LET all == (p.turn :> CaptureTrace(result)) @@ arrays
       IN  [k \in DOMAIN all |->
             [i \in DOMAIN all[k] |->
               [all[k][i] EXCEPT !.output = truncateDeep(@)]]]
  /\ trace' = TraceAfterTurn(trace, p.turn, CaptureTrace(result))
  /\ messages' = HistoryAfterTurn(messages, result)
  /\ owners' = owners \o [i \in 1..Len(result.messages) |-> p.turn]
  /\ pending' = pending \ {p}
  /\ UNCHANGED <<mcpClient, agent, opened, closeCalls, turns>>

\* generate resolved: trace capture, this.trace.push(currentTrace), the
\* response messages appended, truncateHistory, return result.text
ChatResolve(p, result) ==
  /\ p.op = "chat"
  /\ ~CaptureThrows(result)
  /\ arrays' = (p.turn :> CaptureTrace(result)) @@ arrays
  /\ trace' = TraceAfterTurn(trace, p.turn, CaptureTrace(result))
  /\ messages' = HistoryAfterTurn(messages, result)
  /\ owners' = owners \o [i \in 1..Len(result.messages) |-> p.turn]
  /\ pending' = pending \ {p}
  /\ UNCHANGED <<mcpClient, agent, opened, closeCalls, turns>>

\* variant of the code: a turn whose capture raises leaves an empty turn trace
ChatCaptureThrowsPushesEmpty(p, result) ==
  /\ p.op = "chat"
  /\ CaptureThrows(result)
  /\ arrays' = (p.turn :> <<>>) @@ arrays
  /\ trace' = Append(trace, p.turn)
  /\ pending' = pending \ {p}
  /\ UNCHANGED <<mcpClient, agent, messages, opened, closeCalls, turns, owners>>

\* generate resolved, trace capture raises: caught, logged and rethrown
ChatCaptureThrows(p, result) ==
  /\ p.op = "chat"
  /\ CaptureThrows(result)
  /\ pending' = pending \ {p}
  /\ UNCHANGED <<mcpClient, agent, messages, trace, arrays, opened, closeCalls,
                 turns, owners>>

\* variant of the code: the catch block takes the user message back
ChatGenerateThrowsRollsBack(p) ==
  /\ p.op = "chat"
  /\ messages' = p.before
  /\ owners' = SubSeq(owners, 1, Len(p.before))
  /\ pending' = pending \ {p}
  /\ UNCHANGED <<mcpClient, agent, trace, arrays, opened, closeCalls, turns>>

\* generate rejected: caught, logged and rethrown
ChatGenerateThrows(p) ==
  /\ p.op = "chat"
  /\ pending' = pending \ {p}
  /\ UNCHANGED <<mcpClient, agent, messages, trace, arrays, opened, closeCalls,
                 turns, owners>>

(***************************************************************************)
(* clearHistory, clearTrace and the getters (agent.ts 538-574).            *)
(***************************************************************************)
\* variant of the code: only the messages are reset
clearHistoryKeepsTrace ==
  /\ messages' = <<>>
  /\ owners' = <<>>
  /\ UNCHANGED <<mcpClient, agent, trace, arrays, pending, opened, closeCalls,
                 turns>>

\* this.messages = []; this.trace = []
clearHistory ==
  /\ messages' = <<>>
  /\ owners' = <<>>
  /\ trace' = <<>>
  /\ arrays' = Reachable(arrays, <<>>, held)
  /\ UNCHANGED <<mcpClient, agent, pending, opened, closeCalls, turns>>

\* this.trace = []
clearTrace ==
  /\ trace' = <<>>
  /\ arrays' = Reachable(arrays, <<>>, held)
  /\ UNCHANGED <<mcpClient, agent, messages, owners, pending, opened,
                 closeCalls, turns>>

\* [...this.messages]: a new list of the same message objects
getHistory == [kind |-> "history", list |-> messages]

\* [...this.trace]: a new outer list of the same turn-trace arrays
getTrace == [kind |-> "trace", list |-> trace]

\* variant of the code: the trace of the session's first turn is returned
getLastTraceOfFirstTurn ==
  [kind |-> "last",
   list |-> IF Len(trace) = 0 THEN <<>> ELSE arrays[trace[1]]]

\* [...this.trace[this.trace.length - 1]], [] when there is no turn
getLastTrace ==
  [kind |-> "last",
   list |-> IF Len(trace) = 0 THEN <<>> ELSE arrays[trace[Len(trace)]]]

(***************************************************************************)
(* AIAgent.close (agent.ts 579-586), cut at `await this.mcpClient.close()`.*)
(***************************************************************************)
\* this.mcpClient is set: its close() is invoked and awaited
CloseCall(by) ==
  /\ mcpClient # NoClient
  /\ closeCalls' = [closeCalls EXCEPT ![mcpClient] = @ + 1]
  /\ pending' = pending \cup {[op |-> "close", by |-> by, conn |-> mcpClient]}
  /\ UNCHANGED <<mcpClient, agent, messages, trace, arrays, opened, turns,
                 owners>>

\* this.mcpClient is null: this.agent = null, nothing to await
CloseNoClient ==
  /\ mcpClient = NoClient
  /\ agent' = Null
  /\ UNCHANGED <<mcpClient, messages, trace, arrays, pending, opened,
                 closeCalls, turns, owners>>

\* variant of the code: this.agent is not reset
CloseResolveKeepsAgent(p) ==
  /\ p.op = "close"
  /\ mcpClient' = NoClient
  /\ pending' = pending \ {p}
  /\ UNCHANGED <<agent, messages, trace, arrays, opened, closeCalls, turns,
                 owners>>

\* the connection's close() resolved: this.mcpClient = null; this.agent = null
CloseResolve(p) ==
  /\ p.op = "close"
  /\ mcpClient' = NoClient
  /\ agent' = Null
  /\ pending' = pending \ {p}
  /\ UNCHANGED <<messages, trace, arrays, opened, closeCalls, turns, owners>>

\* the connection's close() rejected: close throws before either field is reset
CloseRejects(p) ==
  /\ p.op = "close"
  /\ pending' = pending \ {p}
  /\ UNCHANGED <<mcpClient, agent, messages, trace, arrays, opened, closeCalls,
                 turns, owners>>

(***************************************************************************)
(* Spec: one client that calls the agent's methods one after the other,    *)
(* awaiting each call before it makes the next.  driver.lifecycle is the   *)
(* state the client has seen: Ready once an initialize returned, Closed    *)
(* once a close returned.                                                  *)
(***************************************************************************)
InitConfigs == {Undefined, Obj([maxSteps |-> Num(10)])}

ApiInit ==
  /\ AgentInit
  /\ driver = [kind |-> "api", inits |-> 0, edits |-> 0, closes |-> 0,
               lifecycle |-> "Uninitialized"]

Idle == pending = {}

Snapshot(op, outcome) ==
  [op |-> op, outcome |-> outcome, lifecycle |-> driver.lifecycle,
   agent |-> agent, before |-> messages, traceBefore |-> TraceValue,
   lastBefore |-> getLastTrace.list]

ApiInitialize ==
  /\ Idle
  /\ driver.inits < MaxInits
  /\ \E config \in InitConfigs : InitializeCall("api", config)
  /\ driver' = [driver EXCEPT !.inits = @ + 1]
  /\ last' = NoLast
  /\ UNCHANGED stats
  /\ held' = NoHeld

ApiInitConnected ==
  /\ \E p \in pending : InitializeConnected(p)
  /\ UNCHANGED <<held, driver, last, stats>>

ApiInitConnectFails ==
  /\ \E p \in pending : InitializeConnectFails(p)
  /\ UNCHANGED <<held, driver, last, stats>>

ApiInitReady ==
  /\ \E p \in pending : InitializeReady(p)
  /\ driver' = [driver EXCEPT !.lifecycle = "Ready"]
  /\ UNCHANGED <<held, last, stats>>

ApiInitToolsFail ==
  /\ \E p \in pending : InitializeToolsFail(p)
  /\ UNCHANGED <<held, driver, last, stats>>

ApiChat ==
  /\ Idle
  /\ \E text \in {Question1} :
        /\ ChatCall("api", text)
        /\ last' = [Snapshot("chat", "pending") EXCEPT !.before = messages]
                     @@ [text |-> text, turn |-> turns + 1]
  /\ stats' = [stats EXCEPT !.accepted = @ + 1, !.invoked = @ + 1]
  /\ UNCHANGED driver
  /\ held' = NoHeld

ApiChatRejected ==
  /\ Idle
  /\ ChatRejected
  /\ last' = Snapshot("chat", "notInitialized")
  /\ UNCHANGED <<driver, stats>>
  /\ held' = NoHeld

ApiChatResolve ==
  /\ \E p \in pending : \E result \in GenerateResults :
        /\ ChatResolve(p, result)
        /\ last' = [last EXCEPT !.outcome = "ok"] @@ [result |-> result]
  /\ stats' = [stats EXCEPT !.returned = @ + 1]
  /\ UNCHANGED <<held, driver>>

ApiChatCaptureThrows ==
  /\ \E p \in pending : \E result \in GenerateResults :
        ChatCaptureThrows(p, result)
  /\ last' = [last EXCEPT !.outcome = "captureThrew"]
  /\ UNCHANGED <<held, driver, stats>>

ApiChatGenerateThrows ==
  /\ \E p \in pending : ChatGenerateThrows(p)
  /\ last' = [last EXCEPT !.outcome = "generateThrew"]
  /\ UNCHANGED <<held, driver, stats>>

ApiClearHistory ==
  /\ Idle
  /\ clearHistory
  /\ last' = Snapshot("clearHistory", "ok")
  /\ stats' = [ZeroStats EXCEPT !.cleared = TRUE, !.clearedAt = turns]
  /\ UNCHANGED driver
  /\ held' = NoHeld

ApiClearTrace ==
  /\ Idle
  /\ clearTrace
  /\ last' = NoLast
  /\ stats' = [stats EXCEPT !.invoked = 0, !.returned = 0]
  /\ UNCHANGED driver
  /\ held' = NoHeld

\* the client takes the value a getter returns; it keeps the value until its
\* next call of initialize, chat, clearHistory, clearTrace or close
ApiGet ==
  /\ Idle
  /\ \E getter \in {"getHistory", "getTrace", "getLastTrace"} :
        LET value == CASE getter = "getHistory" -> getHistory
                       [] getter = "getTrace" -> getTrace
                       [] OTHER -> getLastTrace
        IN  /\ held' = value
            /\ arrays' = Reachable(arrays, trace, value)
  /\ last' = NoLast
  /\ UNCHANGED <<mcpClient, agent, messages, trace, pending, driver, opened,
                 closeCalls, turns, owners, stats>>

ForgedRecord ==
  [toolName |-> Str(<<"x">>), input |-> Null, output |-> Null, stepNumber |-> 0]

\* list.pop() and list.push(x) on a list the client holds
Edits(list, x) ==
  {Append(list, x)} \cup
  (IF Len(list) > 0 THEN {SubSeq(list, 1, Len(list) - 1)} ELSE {})

\* the client adds or removes an element of the list it was given
ApiEditReturned ==
  /\ Idle
  /\ held.kind # "none"
  /\ driver.edits < MaxEdits
  /\ \E list \in Edits(held.list,
                       CASE held.kind = "history" -> UserMessage(<<"x">>)
                         [] held.kind = "trace" -> 0
                         [] OTHER -> ForgedRecord) :
        held' = [held EXCEPT !.list = list]
  /\ arrays' = Reachable(arrays, trace, held')
  /\ driver' = [driver EXCEPT !.edits = @ + 1]
  /\ last' = Snapshot("edit", "ok")
  /\ UNCHANGED <<mcpClient, agent, messages, trace, pending, opened,
                 closeCalls, turns, owners, stats>>

\* the client adds or removes an element of a turn trace inside the list that
\* getTrace gave it: the array is the one this.trace refers to
ApiEditNested ==
  /\ Idle
  /\ held.kind = "trace"
  /\ driver.edits < MaxEdits
  /\ \E i \in DOMAIN held.list :
        /\ held.list[i] \in DOMAIN arrays
        /\ \E list \in Edits(arrays[held.list[i]], ForgedRecord) :
              arrays' = [arrays EXCEPT ![held.list[i]] = list]
  /\ driver' = [driver EXCEPT !.edits = @ + 1]
  /\ last' = Snapshot("edit", "ok")
  /\ UNCHANGED <<mcpClient, agent, messages, trace, pending, held, opened,
                 closeCalls, turns, owners, stats>>

ApiClose ==
  /\ Idle
  /\ driver.closes < MaxCloses
  /\ \/ /\ CloseCall("api")
        /\ last' = NoLast
        /\ driver' = [driver EXCEPT !.closes = @ + 1]
     \/ /\ CloseNoClient
        /\ last' = NoLast
        /\ driver' = [driver EXCEPT !.lifecycle = "Closed", !.closes = @ + 1]
  /\ UNCHANGED stats
  /\ held' = NoHeld

ApiCloseResolve ==
  /\ \E p \in pending : CloseResolve(p)
  /\ driver' = [driver EXCEPT !.lifecycle = "Closed"]
  /\ UNCHANGED <<held, last, stats>>

ApiCloseRejects ==
  /\ \E p \in pending : CloseRejects(p)
  /\ UNCHANGED <<held, driver, last, stats>>

ApiNext ==
  \/ ApiInitialize \/ ApiInitConnected \/ ApiInitConnectFails
  \/ ApiInitReady \/ ApiInitToolsFail
  \/ ApiChat \/ ApiChatRejected \/ ApiChatResolve
  \/ ApiChatCaptureThrows \/ ApiChatGenerateThrows
  \/ ApiClearHistory \/ ApiClearTrace
  \/ ApiClose \/ ApiCloseResolve \/ ApiCloseRejects

Spec == ApiInit /\ [][ApiNext]_vars

(***************************************************************************)
(* Claims about the agent under the sequential client.                     *)
(***************************************************************************)
Roles(msgs) == [i \in DOMAIN msgs |-> msgs[i].role]
IsPrefix(a, b) == Len(a) <= Len(b) /\ SubSeq(b, 1, Len(a)) = a

\* C1: when the reasoning session throws inside chat, the call has failed to
\* its caller and the history is the history before the call followed by the
\* user message alone; the session trace is what it was.
C1_FailedTurnKeepsOnlyUserMessage ==
  (last.op = "chat" /\ last.outcome = "generateThrew") =>
     /\ pending = {}
     /\ messages = Append(last.before, UserMessage(last.text))
     /\ Len(messages) = Len(last.before) + 1
     /\ TraceValue = last.traceBefore

C1_Witness ==
  /\ last.op = "chat" /\ last.outcome = "generateThrew"
  /\ Len(last.before) > 0

\* C3: a chat call made while the client has not seen initialize return, or
\* after it has seen close return, is rejected as not initialized and leaves
\* the history and the session trace as they were.
C3_ChatOnlyWhenReady ==
  (last.op = "chat" /\ last.lifecycle # "Ready") =>
     /\ last.outcome = "notInitialized"
     /\ messages = last.before
     /\ TraceValue = last.traceBefore

C3_Witness ==
  /\ last.op = "chat" /\ last.lifecycle = "Closed"
  /\ last.outcome = "notInitialized"
  /\ Len(messages) > 0 /\ Len(trace) > 0

\* C5: right after clearHistory the three getters return empty lists and the
\* session is the one the agent had; the first chat that returns after it
\* leaves a history that starts with its own user message and a session trace
\* of exactly one turn trace.
C5_ClearStartsAfresh ==
  /\ (last.op = "clearHistory") =>
        /\ getHistory.list = <<>>
        /\ getTrace.list = <<>>
        /\ getLastTrace.list = <<>>
        /\ agent = last.agent
  /\ (last.op = "chat" /\ last.outcome = "ok" /\ stats.accepted = 1) =>
        /\ messages[1] = UserMessage(last.text)
        /\ owners[1] = last.turn
        /\ Len(getTrace.list) = 1

C5_Witness ==
  /\ last.op = "chat" /\ last.outcome = "ok" /\ stats.accepted = 1
  /\ stats.cleared /\ stats.clearedAt >= 1
  /\ agent # Null

\* C6: every step other than clearHistory keeps the roles of the messages
\* already in the history, in their order, as a prefix of the new history.
C6_HistoryAppendOnly ==
  [][(~ApiClearHistory) => IsPrefix(Roles(messages), Roles(messages'))]_vars

C6_Witness ==
  /\ turns = 2 /\ pending = {}
  /\ Len(messages) >= 5
  /\ \E i \in DOMAIN messages : messages[i].role = "tool"

\* C7 as stated: once no call is in flight, the session trace holds one turn
\* trace per chat invocation accepted since the trace was last cleared.
C7_OneTracePerInvocation ==
  Idle => Len(getTrace.list) = stats.invoked

\* C7 as amended: the session trace holds one turn trace per chat invocation
\* that returned since the trace was last cleared, an empty one for a turn
\* without tool calls; an invocation whose reasoning session threw added none.
C7_OneTracePerReturnedChat ==
  /\ Len(getTrace.list) = stats.returned
  /\ (last.op = "chat" /\ last.outcome = "ok") =>
        getLastTrace.list = CaptureTrace(last.result)
  /\ (last.op = "chat" /\ last.outcome = "generateThrew") =>
        TraceValue = last.traceBefore

C7_Witness ==
  /\ Idle /\ stats.invoked = 2 /\ stats.returned = 1
  /\ last.op = "chat" /\ last.outcome = "ok"
  /\ getLastTrace.list = <<>>

\* the output the claim pairs with call number callIndex (0-based) of a step:
\* the output of the same-index result when that result is there, else null
PairedOutput(step, callIndex) ==
  LET r == OptIndex(OptField(step, "toolResults"), callIndex)
  IN  IF r.t = "obj" /\ "output" \in DOMAIN r.f THEN r.f.output ELSE Null

RECURSIVE PairedOutputs(_, _)
PairedOutputs(steps, k) ==
  IF k > Len(steps) THEN <<>>
  ELSE (IF HasToolCalls(steps[k])
          THEN [i \in 1..Len(steps[k].f.toolCalls.a) |->
                 PairedOutput(steps[k], i - 1)]
          ELSE <<>>)
       \o PairedOutputs(steps, k + 1)

\* C8: the output of every record of the turn trace is the output of the
\* same-index result of its raw step, whatever that value is, and null when
\* the step reports no such result.
C8_TracePairing ==
  (last.op = "chat" /\ last.outcome = "ok" /\ last.turn \in DOMAIN arrays) =>
     [i \in DOMAIN arrays[last.turn] |-> arrays[last.turn][i].output]
       = PairedOutputs(last.result.steps.a, 1)

(***************************************************************************)
(* SpecCaller: the same client, which also reads the history and the trace *)
(* through the getters and changes the lists it was given.                 *)
(***************************************************************************)
CallerNext ==
  \/ ApiNext
  \/ ApiGet \/ ApiEditReturned \/ ApiEditNested

SpecCaller == ApiInit /\ [][CallerNext]_vars

\* C9: no element the caller adds to or removes from a list a getter gave it,
\* or from a turn trace inside the list getTrace gave it, changes the history
\* or the traces the agent holds and hands out afterwards.
C9_GettersReturnCopies ==
  (last.op = "edit") =>
     /\ getHistory.list = last.before
     /\ TraceValue = last.traceBefore
     /\ getLastTrace.list = last.lastBefore

(***************************************************************************)
(* SpecCli: main of src/src/index.ts.  readline and the process emit their *)
(* events whenever input arrives; an async handler runs up to its first    *)
(* await and returns to the event loop, so handlers of later events run    *)
(* while earlier ones are suspended.  driver.pc is main's position, code   *)
(* the exit code, input whether the readline interface is still open.      *)
(***************************************************************************)
CliConfig == Obj([systemPrompt |-> Str(<<"p">>)])

\* the configuration main hands to the constructor (index.ts 40-46); the
\* constructor stores mcpServerUrl, apiKey, model, verbose and provider, and
\* no field of the agent takes maxSteps or systemPrompt from it
CliAgentConfig == Obj([maxSteps |-> Num(10), verbose |-> Bool(FALSE)])

CliInit ==
  /\ AgentInit
  /\ driver = [kind |-> "cli", pc |-> "start", code |-> 0, lines |-> 0,
               signals |-> 0, input |-> "open"]

\* process.exit(code)
Exit(code) == [driver EXCEPT !.pc = "ended", !.code = code]

\* the handlers are registered and the readline interface still reads lines
LineArrives ==
  /\ driver.pc = "serving"
  /\ driver.input = "open"
  /\ driver.lines < MaxLines

\* MCP_SERVER_URL is not set: exit(1) before an agent exists
CliNoServerUrl ==
  /\ driver.pc = "start"
  /\ driver' = Exit(1)
  /\ UNCHANGED <<mcpClient, agent, messages, trace, arrays, pending, held,
                 opened, closeCalls, turns, owners, last, stats>>

\* new AIAgent(...); await agent.initialize({systemPrompt})
CliStart ==
  /\ driver.pc = "start"
  /\ InitializeCall("main", CliConfig)
  /\ driver' = [driver EXCEPT !.pc = "initializing"]
  /\ UNCHANGED <<held, last, stats>>

CliInitConnected ==
  /\ driver.pc = "initializing"
  /\ \E p \in pending : InitializeConnected(p)
  /\ UNCHANGED <<held, driver, last, stats>>

\* initialize threw: catch (error) { ...; process.exit(1) }
CliInitConnectFails ==
  /\ driver.pc = "initializing"
  /\ \E p \in pending : InitializeConnectFails(p)
  /\ driver' = Exit(1)
  /\ UNCHANGED <<held, last, stats>>

\* initialize returned: the interface is created, the handlers registered
CliInitReady ==
  /\ driver.pc = "initializing"
  /\ \E p \in pending : InitializeReady(p)
  /\ driver' = [driver EXCEPT !.pc = "serving"]
  /\ UNCHANGED <<held, last, stats>>

\* initialize threw after the connection was made: the same catch block
CliInitToolsFail ==
  /\ driver.pc = "initializing"
  /\ \E p \in pending : InitializeToolsFail(p)
  /\ driver' = Exit(1)
  /\ UNCHANGED <<held, last, stats>>

\* 'line' with nothing but blanks: rl.prompt(); return
CliLineEmpty ==
  /\ LineArrives
  /\ driver' = [driver EXCEPT !.lines = @ + 1]
  /\ UNCHANGED <<mcpClient, agent, messages, trace, arrays, pending, held,
                 opened, closeCalls, turns, owners, last, stats>>

\* 'line' exit or quit: await agent.close().  While main serves, the agent
\* holds its connection, so close always reaches the connection's close().
CliLineExit ==
  /\ LineArrives
  /\ CloseCall("exit")
  /\ driver' = [driver EXCEPT !.lines = @ + 1]
  /\ UNCHANGED <<held, last, stats>>

\* 'line' clear: agent.clearHistory(); rl.prompt(); return.  last notes the
\* number of chat turns started before this clear.
CliLineClear ==
  /\ LineArrives
  /\ clearHistory
  /\ driver' = [driver EXCEPT !.lines = @ + 1]
  /\ last' = [op |-> "clearHistory", turn |-> turns]
  /\ UNCHANGED <<held, stats>>

\* any other 'line': await agent.chat(userInput) inside try.  While main
\* serves, this.agent is set, so chat gets past its guard.
CliLineChat ==
  /\ LineArrives
  /\ \E text \in {Question1, Question2} : ChatCall("line", text)
  /\ driver' = [driver EXCEPT !.lines = @ + 1]
  /\ UNCHANGED <<held, last, stats>>

\* chat returned: the answer is printed; rl.prompt()
CliChatResolve ==
  /\ driver.pc = "serving"
  /\ \E p \in pending : \E result \in GenerateResults : ChatResolve(p, result)
  /\ UNCHANGED <<held, driver, last, stats>>

\* chat threw: catch (error) prints it; rl.prompt()
CliChatCaptureThrows ==
  /\ driver.pc = "serving"
  /\ \E p \in pending : \E result \in GenerateResults :
        ChatCaptureThrows(p, result)
  /\ UNCHANGED <<held, driver, last, stats>>

CliChatGenerateThrows ==
  /\ driver.pc = "serving"
  /\ \E p \in pending : ChatGenerateThrows(p)
  /\ UNCHANGED <<held, driver, last, stats>>

\* the input ends: the interface closes and emits 'close': await agent.close()
CliInputEnds ==
  /\ driver.pc = "serving"
  /\ driver.input = "open"
  /\ CloseCall("rlclose")
  /\ driver' = [driver EXCEPT !.input = "closed"]
  /\ UNCHANGED <<held, last, stats>>

\* SIGINT reaches the process: await agent.close()
CliSigint ==
  /\ driver.pc = "serving"
  /\ driver.signals < MaxSignals
  /\ CloseCall("sigint")
  /\ driver' = [driver EXCEPT !.signals = @ + 1]
  /\ UNCHANGED <<held, last, stats>>

\* agent.close() returned to a handler.  The exit and SIGINT handlers call
\* rl.close(), whose 'close' handler calls agent.close() on an agent that has
\* no connection any more, and then process.exit(0); the 'close' handler
\* calls process.exit(0).
CliCloseResolve ==
  /\ driver.pc = "serving"
  /\ \E p \in pending : CloseResolve(p)
  /\ driver' = [Exit(0) EXCEPT !.input = "closed"]
  /\ UNCHANGED <<held, last, stats>>

\* agent.close() threw in a handler, which has no try around it: the
\* rejection is unhandled.  The runtime ends the process with code 1, or
\* only warns and keeps serving.
CliCloseRejects ==
  /\ driver.pc = "serving"
  /\ \E p \in pending : CloseRejects(p)
  /\ \/ driver' = Exit(1)
     \/ driver' = driver
  /\ UNCHANGED <<held, last, stats>>

CliNext ==
  \/ CliNoServerUrl \/ CliStart
  \/ CliInitConnected \/ CliInitConnectFails
  \/ CliInitReady \/ CliInitToolsFail
  \/ CliLineEmpty \/ CliLineExit \/ CliLineClear \/ CliLineChat
  \/ CliChatResolve \/ CliChatCaptureThrows \/ CliChatGenerateThrows
  \/ CliInputEnds \/ CliSigint
  \/ CliCloseResolve \/ CliCloseRejects

SpecCli == CliInit /\ [][CliNext]_vars

\* the chat calls that have appended their user message and not returned
ChatsInFlight == {p \in pending : p.op = "chat"}

\* C2: at most one chat call of the agent is in flight: no chat call starts
\* between another chat call's user-message append and its return.
C2_ChatTurnsSequential == Cardinality(ChatsInFlight) <= 1

\* C4: when a run has ended, the close() of every connection the agent made
\* has been invoked.
C4_ConnectionsReleased ==
  (driver.pc = "ended") => \A c \in 1..opened : closeCalls[c] >= 1

(***************************************************************************)
(* SpecRun: runAllTests and runTestCase (agent.ts 1905-2050) with          *)
(* processAgentTrace and evaluateHolistically.  driver.pc is the position  *)
(* of runAllTests, i the 1-based index of the test case at hand, results   *)
(* its results array, completion how the try block was left, outcome how   *)
(* runAllTests ended.                                                      *)
(***************************************************************************)
CONTEXT_TOOLS == {getDatasetContext, listDatasetTables, getTableDetails}

\* variant of the code: a call that carries SQL is never a context call
IsContextToolUnlessSql(toolCall) ==
  /\ toolCall.toolName.t = "str" /\ toolCall.toolName.s \in CONTEXT_TOOLS
  /\ ~Truthy(OptField(toolCall.input, "sql"))

\* CONTEXT_TOOLS.has(toolCall.toolName)
IsContextTool(toolCall) ==
  toolCall.toolName.t = "str" /\ toolCall.toolName.s \in CONTEXT_TOOLS

\* !isContextTool && toolName === 'queryVCData' && toolCall.input?.sql
HasSql(toolCall) ==
  /\ ~IsContextTool(toolCall)
  /\ toolCall.toolName = Str(queryVCData)
  /\ Truthy(OptField(toolCall.input, "sql"))

\* variant of the code: a query text already collected is not collected again
RECURSIVE SqlQueriesFromDistinct(_, _)
SqlQueriesFromDistinct(agentTrace, k) ==
  IF k > Len(agentTrace) THEN <<>>
  ELSE (IF /\ HasSql(agentTrace[k])
           /\ \A j \in 1..(k - 1) :
                 ~(HasSql(agentTrace[j])
                   /\ agentTrace[j].input.f.sql = agentTrace[k].input.f.sql)
          THEN <<agentTrace[k].input.f.sql>> ELSE <<>>)
       \o SqlQueriesFromDistinct(agentTrace, k + 1)

RECURSIVE SqlQueriesFrom(_, _)
SqlQueriesFrom(agentTrace, k) ==
  IF k > Len(agentTrace) THEN <<>>
  ELSE (IF HasSql(agentTrace[k]) THEN <<agentTrace[k].input.f.sql>> ELSE <<>>)
       \o SqlQueriesFrom(agentTrace, k + 1)

processAgentTrace(agentTrace) ==
  [toolCalls |->
     [k \in DOMAIN agentTrace |->
        [toolName |-> agentTrace[k].toolName,
         success |-> agentTrace[k].output.t \notin {"null", "undefined"},
         isContextTool |-> IsContextTool(agentTrace[k])]],
   sqlQueries |-> SqlQueriesFrom(agentTrace, 1)]

\* trace.toolCalls.filter(tc => !tc.isContextTool).length
RECURSIVE WorkToolCalls(_, _)
WorkToolCalls(toolCalls, k) ==
  IF k > Len(toolCalls) THEN 0
  ELSE (IF toolCalls[k].isContextTool THEN 0 ELSE 1)
       + WorkToolCalls(toolCalls, k + 1)

\* The judge's text is a sequence of pieces: a code fence (three backticks),
\* the word json, a newline, a blank, other prose, or the JSON text of a
\* value.
Fence == [k |-> "fence"]
Tag == [k |-> "json"]
Nl == [k |-> "nl"]
Sp == [k |-> "sp"]
Prose == [k |-> "prose"]
Doc(v) == [k |-> "doc", v |-> v]

\* String.prototype.trim: leading and trailing white space removed
RECURSIVE Trim(_)
Trim(text) ==
  IF text = <<>> THEN text
  ELSE IF Head(text).k \in {"sp", "nl"} THEN Trim(Tail(text))
  ELSE IF text[Len(text)].k \in {"sp", "nl"}
    THEN Trim(SubSeq(text, 1, Len(text) - 1))
  ELSE text

\* variant of the code: the word json after the opening fence is captured too
extractJSONKeepsTag(text) ==
  LET fences == {i \in DOMAIN text : text[i].k = "fence"}
      open == CHOOSE i \in fences : \A j \in fences : i <= j
      close == CHOOSE i \in fences \ {open} : \A j \in fences \ {open} : i <= j
  IN  IF Cardinality(fences) >= 2
        THEN Trim(SubSeq(text, open + 1, close - 1))
        ELSE Trim(text)

\* text.match(/```(?:json)?\s*\n?([\s\S]*?)\n?```/): the leftmost fence that
\* has a fence after it opens the match and the next fence closes it; the
\* word json right after the opening fence is not part of the capture
extractJSON(text) ==
  LET fences == {i \in DOMAIN text : text[i].k = "fence"}
      open == CHOOSE i \in fences : \A j \in fences : i <= j
      close == CHOOSE i \in fences \ {open} : \A j \in fences \ {open} : i <= j
      from == IF open + 1 < close /\ text[open + 1].k = "json"
                THEN open + 2 ELSE open + 1
  IN  IF Cardinality(fences) >= 2
        THEN Trim(SubSeq(text, from, close - 1))
        ELSE Trim(text)

\* JSON.parse: the value of a text that is one JSON text with white space
\* around it, a SyntaxError for every other text
SyntaxError == [t |-> "SyntaxError"]
JsonParse(text) ==
  IF Len(Trim(text)) = 1 /\ Trim(text)[1].k = "doc"
    THEN Trim(text)[1].v ELSE SyntaxError

PassText == <<"p","a","s","s">>
FailText == <<"f","a","i","l">>
Verdict(grade) == Obj([grade |-> grade, reasoning |-> Str(<<"r">>)])

\* the JSON values the judge writes
JudgeValues ==
  {Null, Obj([reasoning |-> Str(<<"r">>)]),
   Verdict(Str(PassText)), Verdict(Str(FailText)),
   Verdict(Str(<<"P","a","s","s">>))}

\* the texts the judge returns: a bare JSON text; one inside fences, with
\* prose around them or with another word after the opening fence; prose in
\* front of a bare JSON text; fences around prose; an opening fence alone;
\* nothing
JudgeTexts ==
  {<<Doc(v)>> : v \in JudgeValues} \cup
  {<<Fence, Tag, Nl, Doc(v), Nl, Fence>> : v \in JudgeValues} \cup
  {<<Prose, Nl, Fence, Nl, Doc(Verdict(Str(PassText))), Nl, Fence, Nl, Prose>>,
   <<Fence, Prose, Nl, Doc(Verdict(Str(PassText))), Nl, Fence>>,
   <<Prose, Sp, Doc(Verdict(Str(PassText)))>>,
   <<Fence, Tag, Nl, Prose, Nl, Fence>>,
   <<Fence, Tag, Nl, Doc(Verdict(Str(FailText)))>>,
   <<>>}

\* what JSON.parse(extractJSON(text)) makes of the judge's texts
JudgeParses == {JsonParse(extractJSON(text)) : text \in JudgeTexts}

\* the judge call: generateText rejects, or returns a text
JudgeReplies ==
  {[rejects |-> TRUE, text |-> <<>>]} \cup
  {[rejects |-> FALSE, text |-> text] : text \in JudgeTexts}

\* variant of the code: a text that does not parse is graded 'fail'
evaluateHolisticallyDefaultsToFail(reply) ==
  LET evaluation == JsonParse(extractJSON(reply.text))
  IN  IF reply.rejects THEN [threw |-> TRUE, error |-> <<"j","u","d","g","e">>]
      ELSE IF evaluation = SyntaxError
        THEN [threw |-> FALSE, grade |-> Str(FailText),
              reasoning |-> Str(<<"S","y","n","t","a","x">>)]
      ELSE IF Throws(evaluation)
        THEN [threw |-> TRUE, error |-> <<"T","y","p","e">>]
      ELSE [threw |-> FALSE,
            grade |-> OptField(evaluation, "grade"),
            reasoning |-> OptField(evaluation, "reasoning")]

\* evaluateHolistically: throws when generateText rejects, when the text does
\* not parse and when the parsed value is null; otherwise
\* {grade: evaluation.grade, reasoning: evaluation.reasoning}
evaluateHolistically(reply) ==
  LET evaluation == JsonParse(extractJSON(reply.text))
  IN  IF reply.rejects THEN [threw |-> TRUE, error |-> <<"j","u","d","g","e">>]
      ELSE IF evaluation = SyntaxError
        THEN [threw |-> TRUE, error |-> <<"S","y","n","t","a","x">>]
      ELSE IF Throws(evaluation)
        THEN [threw |-> TRUE, error |-> <<"T","y","p","e">>]
      ELSE [threw |-> FALSE,
            grade |-> OptField(evaluation, "grade"),
            reasoning |-> OptField(evaluation, "reasoning")]

\* holisticEval.grade.toUpperCase() throws unless grade is a string
GradeLabelThrows(holisticEval) == holisticEval.grade.t # "str"

TestCase(k) ==
  [id |-> 2 * k + 1,
   question |-> IF k % 2 = 1 THEN Question1 ELSE Question2,
   max_tool_calls |-> IF k % 2 = 1 THEN 1 ELSE 0]

\* a turn with a query-examples call and a table listing that is given the
\* arguments and the rows of a query, then two queries: three work calls
ManyQueries ==
  [text |-> Str(AnswerText),
   steps |-> Arr(<<Step(<<Call(getQueryExamples, Obj([category |-> Str(<<"c">>)])),
                          Call(listDatasetTables, SqlArgs)>>,
                        <<ToolResult(Undefined, Str(<<"e">>)),
                          ToolResult(SqlArgs, Rows)>>),
                   Step(<<Call(queryVCData, SqlArgs),
                          Call(queryVCData, SqlArgs)>>,
                        <<ToolResult(SqlArgs, Rows), ToolResult(SqlArgs, Rows)>>),
                   Step(<<>>, <<>>)>>),
   messages |-> <<AssistantMessage,
                  ToolMessage(<<ToolPart(getQueryExamples, Str(<<"e">>)),
                                ToolPart(listDatasetTables, Rows)>>),
                  AssistantMessage,
                  ToolMessage(<<ToolPart(queryVCData, Rows),
                                ToolPart(queryVCData, Rows)>>),
                  AssistantMessage>>]

\* what generate returns to the chat of a test case
RunGenerateResults == GenerateResults \cup {ManyQueries}

\* the result runTestCase builds after the judge's evaluation
EvaluatedResult(testCase, holisticEval, answer, processed) ==
  [test_id |-> testCase.id,
   question |-> testCase.question,
   grade |-> holisticEval.grade,
   reasoning |-> holisticEval.reasoning,
   tools_called_num |-> WorkToolCalls(processed.toolCalls, 1),
   tools_called_expected |-> testCase.max_tool_calls,
   answer |-> answer,
   sql_queries |-> processed.sqlQueries]

\* 'Test execution crashed with error: '
CrashPrefix ==
  <<"T","e","s","t"," ","e","x","e","c","u","t","i","o","n"," ",
    "c","r","a","s","h","e","d"," ","w","i","t","h"," ",
    "e","r","r","o","r",":"," ">>

\* variant of the code: the reasoning does not carry the error's message
CrashResultWithoutMessage(testCase, error) ==
  [test_id |-> testCase.id,
   question |-> testCase.question,
   grade |-> Str(FailText),
   reasoning |-> Str(CrashPrefix),
   tools_called_num |-> 0,
   tools_called_expected |-> testCase.max_tool_calls,
   answer |-> Str(<<>>),
   sql_queries |-> <<>>]

\* the result runTestCase's catch block builds
CrashResult(testCase, error) ==
  [test_id |-> testCase.id,
   question |-> testCase.question,
   grade |-> Str(FailText),
   reasoning |-> Str(CrashPrefix \o error),
   tools_called_num |-> 0,
   tools_called_expected |-> testCase.max_tool_calls,
   answer |-> Str(<<>>),
   sql_queries |-> <<>>]

\* results.push(result); the delay unless this was the last test case; i++
PushResult(d, result) ==
  [d EXCEPT !.results = Append(@, result),
            !.pc = IF d.i < Len(d.testCases) THEN "delay" ELSE "loop",
            !.i = IF d.i < Len(d.testCases) THEN @ ELSE @ + 1]

\* variant of the code: runTestCase lets the error through and the loop has no try
CrashedAborts(d, error) ==
  [d EXCEPT !.pc = "finally", !.completion = "throw"]

\* runTestCase caught an error: its crash result is what it returns
Crashed(d, error) == PushResult(d, CrashResult(d.testCases[d.i], error))

NoProcessed == [toolCalls |-> <<>>, sqlQueries |-> <<>>]

\* results.filter(r => r.grade === grade).length
CountGrade(results, grade) ==
  Cardinality({i \in DOMAIN results : results[i].grade = Str(grade)})

\* the metadata buildUnifiedResults computes (src/unnamed/part_002 68-86).
\* pass_rate is the quotient (passed / total) * 100 kept as a fraction; the
\* rounding of floating-point division is not represented.
buildUnifiedResults(results) ==
  LET total == Len(results)
      passed == CountGrade(results, PassText)
      failed == CountGrade(results, FailText)
  IN  [total_tests |-> total,
       passed |-> passed,
       failed |-> failed,
       pass_rate |-> IF total > 0 THEN [num |-> passed * 100, den |-> total]
                                  ELSE [num |-> 0, den |-> 1]]
NoReply == [rejects |-> FALSE, text |-> <<>>]

\* what was seen of the test case at hand: the step that ended it (chat, the
\* judge's evaluation, the grade label), the judge's reply, and whether the
\* step threw and with what message
Tested(step, reply, threw, error) ==
  [op |-> "test", index |-> driver.i, step |-> step, reply |-> reply,
   threw |-> threw, error |-> error]
RunConfig == Obj([systemPrompt |-> Str(<<"p">>), maxSteps |-> Num(15)])
RunSizes == 0..(IF MaxTests < MaxChats THEN MaxTests ELSE MaxChats)

RunInit ==
  /\ AgentInit
  /\ \E n \in RunSizes :
        driver = [kind |-> "run", pc |-> "start",
                  testCases |-> [k \in 1..n |-> TestCase(k)],
                  i |-> 1, results |-> <<>>, ready |-> FALSE,
                  completion |-> "none", outcome |-> "none",
                  answer |-> Null, processed |-> NoProcessed,
                  metadata |-> buildUnifiedResults(<<>>), code |-> 0]

\* new AIAgent(...); await agent.initialize({systemPrompt, maxSteps: 15})
RunStart ==
  /\ driver.pc = "start"
  /\ InitializeCall("run", RunConfig)
  /\ driver' = [driver EXCEPT !.pc = "initializing"]
  /\ UNCHANGED <<held, last, stats>>

RunInitConnected ==
  /\ driver.pc = "initializing"
  /\ \E p \in pending : InitializeConnected(p)
  /\ UNCHANGED <<held, driver, last, stats>>

\* initialize threw: the try block is left for the finally block
RunInitConnectFails ==
  /\ driver.pc = "initializing"
  /\ \E p \in pending : InitializeConnectFails(p)
  /\ driver' = [driver EXCEPT !.pc = "finally", !.completion = "throw"]
  /\ UNCHANGED <<held, last, stats>>

RunInitReady ==
  /\ driver.pc = "initializing"
  /\ \E p \in pending : InitializeReady(p)
  /\ driver' = [driver EXCEPT !.pc = "loop", !.ready = TRUE]
  /\ UNCHANGED <<held, last, stats>>

RunInitToolsFail ==
  /\ driver.pc = "initializing"
  /\ \E p \in pending : InitializeToolsFail(p)
  /\ driver' = [driver EXCEPT !.pc = "finally", !.completion = "throw"]
  /\ UNCHANGED <<held, last, stats>>

\* i < testCases.length: runTestCase calls agent.chat(testCase.question).
\* initialize has returned and close is not called before the finally block,
\* so this.agent is set and chat gets past its guard.
RunTest ==
  /\ driver.pc = "loop"
  /\ driver.i <= Len(driver.testCases)
  /\ ChatCall("run", driver.testCases[driver.i].question)
  /\ driver' = [driver EXCEPT !.pc = "chatting"]
  /\ UNCHANGED <<held, last, stats>>

\* the loop is over: return results, by way of the finally block
RunLoopDone ==
  /\ driver.pc = "loop"
  /\ driver.i > Len(driver.testCases)
  /\ driver' = [driver EXCEPT !.pc = "finally", !.completion = "return"]
  /\ UNCHANGED <<mcpClient, agent, messages, trace, arrays, pending, held,
                 opened, closeCalls, turns, owners, last, stats>>

\* chat returned: getLastTrace, processAgentTrace, then the judge is called
RunChatResolve ==
  /\ driver.pc = "chatting"
  /\ \E p \in pending : \E result \in RunGenerateResults :
        /\ ChatResolve(p, result)
        /\ driver' = [driver EXCEPT
                        !.pc = "judging",
                        !.answer = result.text,
                        !.processed = processAgentTrace(getLastTrace.list)']
  /\ UNCHANGED <<held, last, stats>>

\* chat threw: runTestCase's catch block
RunChatCaptureThrows ==
  /\ driver.pc = "chatting"
  /\ \E p \in pending : \E result \in RunGenerateResults :
        ChatCaptureThrows(p, result)
  /\ driver' = Crashed(driver, <<"c","a","p","t","u","r","e">>)
  /\ last' = Tested("chat", NoReply, TRUE, <<"c","a","p","t","u","r","e">>)
  /\ UNCHANGED <<held, stats>>

RunChatGenerateThrows ==
  /\ driver.pc = "chatting"
  /\ \E p \in pending : ChatGenerateThrows(p)
  /\ driver' = Crashed(driver, <<"g","e","n","e","r","a","t","e">>)
  /\ last' = Tested("chat", NoReply, TRUE, <<"g","e","n","e","r","a","t","e">>)
  /\ UNCHANGED <<held, stats>>

\* the judge call is over: the result is built, or an error is caught
RunJudge ==
  /\ driver.pc = "judging"
  /\ \E reply \in JudgeReplies :
        LET holisticEval == evaluateHolistically(reply)
        IN  IF holisticEval.threw
              THEN /\ driver' = Crashed(driver, holisticEval.error)
                   /\ last' = Tested("judge", reply, TRUE, holisticEval.error)
            ELSE IF GradeLabelThrows(holisticEval)
              THEN /\ driver' = Crashed(driver, <<"T","y","p","e">>)
                   /\ last' = Tested("label", reply, TRUE, <<"T","y","p","e">>)
            ELSE /\ driver' =
                      PushResult(driver,
                        EvaluatedResult(driver.testCases[driver.i], holisticEval,
                                        driver.answer, driver.processed))
                 /\ last' = Tested("label", reply, FALSE, <<>>)
  /\ UNCHANGED <<mcpClient, agent, messages, trace, arrays, pending, held,
                 opened, closeCalls, turns, owners, stats>>

\* variant of the code: the loop index is not advanced after the delay
RunDelayOverRepeats ==
  /\ driver.pc = "delay"
  /\ driver' = [driver EXCEPT !.pc = "loop"]
  /\ UNCHANGED <<mcpClient, agent, messages, trace, arrays, pending, held,
                 opened, closeCalls, turns, owners, last, stats>>

\* variant of the code: the history is cleared between two test cases
RunDelayOverClearsHistory ==
  /\ driver.pc = "delay"
  /\ clearHistory
  /\ driver' = [driver EXCEPT !.pc = "loop", !.i = @ + 1]
  /\ UNCHANGED <<held, last, stats>>

\* the delay between two test cases is over
RunDelayOver ==
  /\ driver.pc = "delay"
  /\ driver' = [driver EXCEPT !.pc = "loop", !.i = @ + 1]
  /\ UNCHANGED <<mcpClient, agent, messages, trace, arrays, pending, held,
                 opened, closeCalls, turns, owners, last, stats>>

\* how runAllTests ends once its finally block is through
Ended(d) ==
  [d EXCEPT !.pc = "ended",
            !.outcome = IF d.completion = "return" THEN "returned" ELSE "threw"]

\* finally { await agent.close() }
RunFinally ==
  /\ driver.pc = "finally"
  /\ \/ /\ CloseCall("run")
        /\ driver' = [driver EXCEPT !.pc = "closing"]
     \/ /\ CloseNoClient
        /\ driver' = Ended(driver)
  /\ UNCHANGED <<held, last, stats>>

RunCloseResolve ==
  /\ driver.pc = "closing"
  /\ \E p \in pending : CloseResolve(p)
  /\ driver' = Ended(driver)
  /\ UNCHANGED <<held, last, stats>>

\* close threw inside the finally block: runAllTests throws that error
RunCloseRejects ==
  /\ driver.pc = "closing"
  /\ \E p \in pending : CloseRejects(p)
  /\ driver' = [driver EXCEPT !.pc = "ended", !.outcome = "threw"]
  /\ UNCHANGED <<held, last, stats>>

\* runAllTests returned to main: buildUnifiedResults, printSummary and
\* process.exit(output.metadata.failed > 0 ? 1 : 0)
RunReport ==
  /\ driver.pc = "ended"
  /\ driver.outcome = "returned"
  /\ driver' = [driver EXCEPT
                  !.pc = "exited",
                  !.metadata = buildUnifiedResults(driver.results),
                  !.code = IF buildUnifiedResults(driver.results).failed > 0
                             THEN 1 ELSE 0]
  /\ UNCHANGED <<mcpClient, agent, messages, trace, arrays, pending, held,
                 opened, closeCalls, turns, owners, last, stats>>

\* runAllTests threw: main().catch logs the error and calls process.exit(1)
RunFatal ==
  /\ driver.pc = "ended"
  /\ driver.outcome = "threw"
  /\ driver' = [driver EXCEPT !.pc = "exited", !.code = 1]
  /\ UNCHANGED <<mcpClient, agent, messages, trace, arrays, pending, held,
                 opened, closeCalls, turns, owners, last, stats>>

RunNext ==
  \/ RunStart \/ RunInitConnected \/ RunInitConnectFails
  \/ RunInitReady \/ RunInitToolsFail
  \/ RunTest \/ RunLoopDone
  \/ RunChatResolve \/ RunChatCaptureThrows \/ RunChatGenerateThrows
  \/ RunJudge \/ RunDelayOver
  \/ RunFinally \/ RunCloseResolve \/ RunCloseRejects
  \/ RunReport \/ RunFatal

SpecRun == RunInit /\ [][RunNext]_vars

\* C10: once initialize has succeeded, the try block of runAllTests is left
\* only by its return, with one result per test case, result i carrying the
\* id of test case i; and runAllTests returns exactly when the try block
\* was left by its return and close did not throw.
C10_CrashDoesNotAbortSuite ==
  /\ (driver.ready /\ driver.pc \in {"finally", "closing", "ended"}) =>
        /\ driver.completion = "return"
        /\ Len(driver.results) = Len(driver.testCases)
        /\ \A i \in DOMAIN driver.results :
              driver.results[i].test_id = driver.testCases[i].id
  /\ (driver.outcome = "returned") =>
        /\ driver.ready
        /\ Len(driver.results) = Len(driver.testCases)

C10_Witness ==
  /\ driver.outcome = "returned"
  /\ Len(driver.testCases) = 2
  /\ driver.results[1].reasoning = Str(CrashPrefix \o <<"S","y","n","t","a","x">>)
  /\ driver.results[2].reasoning =
       Str(CrashPrefix \o <<"g","e","n","e","r","a","t","e">>)

\* sub occurs in s
Contains(s, sub) ==
  \E i \in 0..(Len(s) - Len(sub)) : SubSeq(s, i + 1, i + Len(sub)) = sub

\* C11: when a step of a test case threw (chat, the judge's evaluation, the
\* grade label), the result recorded for that test case carries its id, has
\* grade 'fail', a reasoning that contains the error's message,
\* tools_called_num 0, an empty answer and no queries.
C11_CrashIsFailResult ==
  (last.op = "test" /\ last.threw) =>
     LET r == driver.results[last.index]
     IN  /\ r.test_id = driver.testCases[last.index].id
         /\ r.grade = Str(FailText)
         /\ r.reasoning.t = "str"
         /\ Contains(r.reasoning.s, last.error)
         /\ r.tools_called_num = 0
         /\ r.answer = Str(<<>>)
         /\ r.sql_queries = <<>>

C11_Witness ==
  /\ last.op = "test" /\ last.threw /\ last.step = "judge"
  /\ driver.answer = Str(AnswerText)
  /\ driver.processed.sqlQueries # <<>>
  /\ Len(driver.results) = 2

\* C12: when the text the judge returned is not valid JSON once the fences
\* are stripped, evaluateHolistically throws and returns no verdict, and the
\* result of the test case is the crash result that carries the parse
\* error, not a result built from a verdict.
C12_UnparseableJudgeTextIsAnError ==
  (/\ last.op = "test" /\ last.step \in {"judge", "label"}
   /\ ~last.reply.rejects
   /\ JsonParse(extractJSON(last.reply.text)) = SyntaxError) =>
     /\ evaluateHolistically(last.reply).threw
     /\ last.step = "judge" /\ last.threw
     /\ driver.results[last.index] =
          CrashResult(driver.testCases[last.index],
                      <<"S","y","n","t","a","x">>)

C12_Witness ==
  /\ last.op = "test" /\ last.step = "judge" /\ last.threw
  /\ last.reply.text = <<Fence, Tag, Nl, Prose, Nl, Fence>>
  /\ Contains(driver.results[last.index].reasoning.s, <<"S","y","n","t","a","x">>)

\* C13: the grade of every verdict evaluateHolistically returns, and the
\* grade of every result of the run, is 'pass' or 'fail'.
C13_GradeIsPassOrFail ==
  /\ (/\ last.op = "test" /\ last.step = "label"
      /\ ~evaluateHolistically(last.reply).threw) =>
        evaluateHolistically(last.reply).grade \in {Str(PassText), Str(FailText)}
  /\ \A i \in DOMAIN driver.results :
        driver.results[i].grade \in {Str(PassText), Str(FailText)}

\* C14: a result whose tool calls exceed the test case's budget by more than
\* two has grade 'fail', whatever the judge answered.
C14_OverBudgetFails ==
  \A i \in DOMAIN driver.results :
     (driver.results[i].tools_called_num
        > driver.results[i].tools_called_expected + 2) =>
       driver.results[i].grade = Str(FailText)

\* C15: for the N results of a run of which P have grade 'pass', the
\* metadata reports total_tests = N, passed = P, failed = N - P and
\* pass_rate = 100 * P / N, and pass_rate = 0 when N = 0.
C15_AggregateCounts ==
  (driver.pc = "exited" /\ driver.outcome = "returned") =>
     LET N == Len(driver.results)
         P == Cardinality({i \in DOMAIN driver.results :
                             driver.results[i].grade = Str(PassText)})
         m == driver.metadata
     IN  /\ m.total_tests = N
         /\ m.passed = P
         /\ m.failed = N - P
         /\ m.passed + m.failed = m.total_tests
         /\ m.pass_rate.den > 0
         /\ IF N = 0 THEN m.pass_rate.num = 0
                     ELSE m.pass_rate.num * N = 100 * P * m.pass_rate.den

\* the positions of a trace whose tool name is none of the three context names
WorkNames(agentTrace) ==
  {k \in DOMAIN agentTrace :
     ~(/\ agentTrace[k].toolName.t = "str"
       /\ agentTrace[k].toolName.s \in
            {getDatasetContext, listDatasetTables, getTableDetails})}

\* C19: a tool call of the trace is recorded as a context call exactly when
\* its name is getDatasetContext, listDatasetTables or getTableDetails,
\* whatever its input and output; the calls of every other name are the ones
\* counted in the result's tools_called_num.
C19_ClassificationByName ==
  /\ (driver.pc = "judging") =>
        LET agentTrace == getLastTrace.list
            calls == driver.processed.toolCalls
        IN  /\ Len(calls) = Len(agentTrace)
            /\ \A k \in DOMAIN agentTrace :
                  /\ calls[k].toolName = agentTrace[k].toolName
                  /\ calls[k].isContextTool <=> k \notin WorkNames(agentTrace)
  /\ (/\ driver.pc \notin {"chatting", "judging"}
      /\ last.op = "test" /\ ~last.threw) =>
        driver.results[Len(driver.results)].tools_called_num =
          Cardinality(WorkNames(getLastTrace.list))

C19_Witness ==
  /\ driver.pc \notin {"chatting", "judging"}
  /\ last.op = "test" /\ ~last.threw
  /\ driver.results[Len(driver.results)].tools_called_num = 3
  /\ LET agentTrace == getLastTrace.list
         calls == driver.processed.toolCalls
     IN  /\ Len(agentTrace) = 4
         /\ agentTrace[1].toolName = Str(getQueryExamples)
         /\ ~calls[1].isContextTool
         /\ agentTrace[2].toolName = Str(listDatasetTables)
         /\ agentTrace[3].toolName = Str(queryVCData)
         /\ agentTrace[2].input = agentTrace[3].input
         /\ agentTrace[2].output = agentTrace[3].output
         /\ calls[2].isContextTool
         /\ ~calls[3].isContextTool

(***************************************************************************)
(* SpecTruncate: truncateHistory (agent.ts 485-532) applied to a history.  *)
(* The history is any list of at most MaxHistory messages of              *)
(* HistoryMessages; driver.original is the history before the first       *)
(* application, driver.applied the number of applications.                *)
(***************************************************************************)
\* a payload with strings at several depths, next to values of other kinds
DeepPayload ==
  Obj([rows |-> Arr(<<Obj([bio |-> Str(LongText), age |-> Num(0), city |-> Null]),
                      Arr(<<Str(LongText), Str(<<"s">>)>>)>>),
       note |-> Str(Rep("y", MAX_TOOL_RESULT_LENGTH)),
       done |-> Bool(TRUE)])

HistoryMessages ==
  {UserMessage(LongText),
   [role |-> "assistant", content |-> Arr(<<ToolPart(queryVCData, Rows)>>)],
   [role |-> "tool", content |-> Str(LongText)],
   ToolMessage(<<ToolPart(getTableDetails, DeepPayload),
                 ToolPart(queryVCData, Rows)>>),
   ToolMessage(<<ToolPart(queryVCData, DeepPayload)>>),
   ToolMessage(<<ToolPart(queryVCData, Str(LongText \o TRUNCATION_SUFFIX)),
                 Obj([result |-> Str(LongText)])>>),
   ToolMessage(<<Obj([toolName |-> Str(queryVCData)]),
                 ToolPart(getQueryExamples, Str(LongText))>>)}

RECURSIVE Histories(_)
Histories(n) ==
  IF n = 0 THEN {<<>>}
  ELSE Histories(n - 1) \cup
       {Append(h, m) : h \in {g \in Histories(n - 1) : Len(g) = n - 1},
                       m \in HistoryMessages}

TruncInit ==
  /\ mcpClient = NoClient
  /\ agent = Null
  /\ messages \in Histories(MaxHistory)
  /\ trace = <<>>
  /\ arrays = <<>>
  /\ pending = {}
  /\ held = NoHeld
  /\ opened = 0
  /\ closeCalls = <<>>
  /\ turns = 0
  /\ owners = <<>>
  /\ last = NoLast
  /\ stats = ZeroStats
  /\ driver = [kind |-> "truncate", applied |-> 0, original |-> messages]

\* this.truncateHistory()
TruncApply ==
  /\ driver.applied < MaxApplications
  /\ messages' = truncateHistory(messages)
  /\ driver' = [driver EXCEPT !.applied = @ + 1]
  /\ UNCHANGED <<mcpClient, agent, trace, arrays, pending, held, opened,
                 closeCalls, turns, owners, last, stats>>

TruncNext == TruncApply

SpecTruncate == TruncInit /\ [][TruncNext]_vars

\* C16: applying truncateHistory to a history it has been applied to leaves
\* the history as it is.
C16_TruncationIdempotent ==
  (driver.applied >= 1) => truncateHistory(messages) = messages

C16_Witness ==
  /\ driver.applied = 2
  /\ messages # driver.original
  /\ \E i \in DOMAIN messages :
        /\ messages[i].role = "tool" /\ messages[i].content.t = "arr"
        /\ messages[i].content.a[1].f.result =
             Str(Rep("x", MAX_TOOL_RESULT_LENGTH) \o TRUNCATION_SUFFIX)
        /\ driver.original[i].content.a[1].f.result =
             Str(LongText \o TRUNCATION_SUFFIX)

\* the part carries the name of a tool of the truncation set
InTruncationSet(part) ==
  /\ part.t = "obj" /\ "toolName" \in DOMAIN part.f
  /\ part.f.toolName = Str(queryVCData)

\* the tool messages with list content, by position in the history
ListToolMessages ==
  {i \in DOMAIN driver.original :
     /\ driver.original[i].role = "tool"
     /\ driver.original[i].content.t = "arr"}

\* C17: truncateHistory keeps the number and order of the messages and leaves
\* untouched every message that is not a tool message, every tool message
\* whose content is not a list, and every part whose tool name is not in the
\* truncation set.
C17_OutsideTruncationSetUntouched ==
  (driver.applied >= 1) =>
     /\ Len(messages) = Len(driver.original)
     /\ \A i \in DOMAIN driver.original :
          IF i \in ListToolMessages
            THEN /\ messages[i].role = "tool"
                 /\ messages[i].content.t = "arr"
                 /\ Len(messages[i].content.a) =
                      Len(driver.original[i].content.a)
                 /\ \A j \in DOMAIN driver.original[i].content.a :
                      ~InTruncationSet(driver.original[i].content.a[j]) =>
                         messages[i].content.a[j] =
                           driver.original[i].content.a[j]
            ELSE messages[i] = driver.original[i]

C17_Witness ==
  /\ driver.applied = 1
  /\ Len(messages) = 2
  /\ messages[1] = [role |-> "tool", content |-> Str(LongText)]
  /\ messages[2].role = "tool"
  /\ messages[2].content.t = "arr"
  /\ messages[2].content.a[1] = ToolPart(getTableDetails, DeepPayload)
  /\ messages[2].content.a[2] # driver.original[2].content.a[2]

\* w is v with every string of more than 1000 characters, at any depth,
\* replaced by its first 1000 characters and the suffix
RECURSIVE TruncationOf(_, _)
TruncationOf(w, v) ==
  CASE v.t = "str" ->
         /\ w.t = "str"
         /\ IF Len(v.s) > 1000
              THEN w.s = SubSeq(v.s, 1, 1000) \o TRUNCATION_SUFFIX
              ELSE w.s = v.s
    [] v.t = "arr" ->
         /\ w.t = "arr"
         /\ Len(w.a) = Len(v.a)
         /\ \A i \in DOMAIN v.a : TruncationOf(w.a[i], v.a[i])
    [] v.t = "obj" ->
         /\ w.t = "obj"
         /\ DOMAIN w.f = DOMAIN v.f
         /\ \A k \in DOMAIN v.f : TruncationOf(w.f[k], v.f[k])
    [] OTHER -> w = v

\* C18: in a tool message with list content, the result of every part of the
\* truncation set is replaced by a structure of the same shape in which the
\* strings longer than 1000 characters are cut to 1000 characters plus the
\* suffix and every other value is unchanged; the part's other fields stay.
C18_ResultsTruncatedDeep ==
  (driver.applied >= 1) =>
     \A i \in ListToolMessages :
        \A j \in DOMAIN driver.original[i].content.a :
           LET old == driver.original[i].content.a[j]
               new == messages[i].content.a[j]
           IN  InTruncationSet(old) =>
                 /\ new.t = "obj"
                 /\ DOMAIN new.f = DOMAIN old.f \cup {"result"}
                 /\ \A k \in DOMAIN old.f \ {"result"} : new.f[k] = old.f[k]
                 /\ TruncationOf(new.f.result, OptField(old, "result"))

C18_Witness ==
  /\ driver.applied = 1
  /\ Len(messages) = 1
  /\ driver.original[1] = ToolMessage(<<ToolPart(queryVCData, DeepPayload)>>)
  /\ LET result == messages[1].content.a[1].f.result
         cut == Str(Rep("x", 1000) \o TRUNCATION_SUFFIX)
     IN  /\ result.f.rows.a[1].f.bio = cut
         /\ result.f.rows.a[1].f.age = Num(0)
         /\ result.f.rows.a[1].f.city = Null
         /\ result.f.rows.a[2].a[1] = cut
         /\ result.f.rows.a[2].a[2] = Str(<<"s">>)
         /\ result.f.note = Str(Rep("y", 1000))
         /\ result.f.done = Bool(TRUE)

(***************************************************************************)
(* SpecClose: a client that initializes the agent once, chats, and then    *)
(* calls close (agent.ts 579-586) several times in sequence.               *)
(* driver.outcomes lists how the close calls ended; driver.afterFirst is   *)
(* the agent's state when the first of them ended.                         *)
(***************************************************************************)
AgentState ==
  [mcpClient |-> mcpClient, agent |-> agent, messages |-> messages,
   trace |-> TraceValue]

CloserInit ==
  /\ AgentInit
  /\ driver = [kind |-> "closer", pc |-> "start", outcomes |-> <<>>,
               afterFirst |-> AgentState]

\* how a close call ended
CloseEnded(d, outcome, state) ==
  [d EXCEPT !.pc = "idle",
            !.outcomes = Append(@, outcome),
            !.afterFirst = IF Len(d.outcomes) = 0 THEN state ELSE @]

CloserInitialize ==
  /\ driver.pc = "start"
  /\ \E config \in InitConfigs : InitializeCall("closer", config)
  /\ driver' = [driver EXCEPT !.pc = "initializing"]
  /\ UNCHANGED <<held, last, stats>>

CloserInitConnected ==
  /\ driver.pc = "initializing"
  /\ \E p \in pending : InitializeConnected(p)
  /\ UNCHANGED <<held, driver, last, stats>>

CloserInitConnectFails ==
  /\ driver.pc = "initializing"
  /\ \E p \in pending : InitializeConnectFails(p)
  /\ driver' = [driver EXCEPT !.pc = "idle"]
  /\ UNCHANGED <<held, last, stats>>

CloserInitReady ==
  /\ driver.pc = "initializing"
  /\ \E p \in pending : InitializeReady(p)
  /\ driver' = [driver EXCEPT !.pc = "idle"]
  /\ UNCHANGED <<held, last, stats>>

CloserInitToolsFail ==
  /\ driver.pc = "initializing"
  /\ \E p \in pending : InitializeToolsFail(p)
  /\ driver' = [driver EXCEPT !.pc = "idle"]
  /\ UNCHANGED <<held, last, stats>>

CloserChat ==
  /\ driver.pc = "idle"
  /\ driver.outcomes = <<>>
  /\ ChatCall("closer", Question1)
  /\ driver' = [driver EXCEPT !.pc = "chatting"]
  /\ UNCHANGED <<held, last, stats>>

CloserChatResolve ==
  /\ driver.pc = "chatting"
  /\ \E p \in pending : \E result \in GenerateResults : ChatResolve(p, result)
  /\ driver' = [driver EXCEPT !.pc = "idle"]
  /\ UNCHANGED <<held, last, stats>>

CloserChatCaptureThrows ==
  /\ driver.pc = "chatting"
  /\ \E p \in pending : \E result \in GenerateResults :
        ChatCaptureThrows(p, result)
  /\ driver' = [driver EXCEPT !.pc = "idle"]
  /\ UNCHANGED <<held, last, stats>>

CloserChatGenerateThrows ==
  /\ driver.pc = "chatting"
  /\ \E p \in pending : ChatGenerateThrows(p)
  /\ driver' = [driver EXCEPT !.pc = "idle"]
  /\ UNCHANGED <<held, last, stats>>

\* await agent.close(): up to the connection's close(), or through to the end
\* when no connection is held
CloserClose ==
  /\ driver.pc = "idle"
  /\ Len(driver.outcomes) < MaxCloseCalls
  /\ \/ /\ CloseCall("closer")
        /\ driver' = [driver EXCEPT !.pc = "closing"]
     \/ /\ CloseNoClient
        /\ driver' = CloseEnded(driver, "returned", AgentState')
  /\ UNCHANGED <<held, last, stats>>

CloserCloseResolve ==
  /\ driver.pc = "closing"
  /\ \E p \in pending : CloseResolve(p)
  /\ driver' = CloseEnded(driver, "returned", AgentState')
  /\ UNCHANGED <<held, last, stats>>

CloserCloseRejects ==
  /\ driver.pc = "closing"
  /\ \E p \in pending : CloseRejects(p)
  /\ driver' = CloseEnded(driver, "raised", AgentState')
  /\ UNCHANGED <<held, last, stats>>

CloserNext ==
  \/ CloserInitialize \/ CloserInitConnected \/ CloserInitConnectFails
  \/ CloserInitReady \/ CloserInitToolsFail
  \/ CloserChat \/ CloserChatResolve
  \/ CloserChatCaptureThrows \/ CloserChatGenerateThrows
  \/ CloserClose \/ CloserCloseResolve \/ CloserCloseRejects

SpecClose == CloserInit /\ [][CloserNext]_vars

\* C20: after one or more close calls in sequence, the connection the agent
\* held has had its close invoked exactly once, none of the calls after the
\* first raised, and the agent is in the Closed state the first call left.
C20_CloseReleasesOnce ==
  (driver.pc = "idle" /\ Len(driver.outcomes) >= 1) =>
     /\ \A c \in 1..opened : closeCalls[c] = 1
     /\ \A i \in 2..Len(driver.outcomes) : driver.outcomes[i] = "returned"
     /\ AgentState = driver.afterFirst
     /\ mcpClient = NoClient
     /\ agent = Null

(***************************************************************************)
(* Claims about initialize and the trace capture, sequential client.       *)
(***************************************************************************)
\* C21: between calls, an agent that accepts chat holds the connection its
\* session is bound to; after a failed initialize there is no session bound
\* to another connection than the one held.
C21_NoPartialReady ==
  (Idle /\ agent # Null) => agent.conn = mcpClient

\* C22: a chat call whose reasoning-session invocation succeeded returns:
\* it records one turn trace and appends the response messages, whatever the
\* step list looks like.
C22_TraceCaptureNeverFails ==
  (last.op = "chat" /\ last.outcome \in {"ok", "captureThrew"}) =>
     /\ last.outcome = "ok"
     /\ Len(trace) = Len(last.traceBefore) + 1
     /\ Len(messages) = Len(last.before) + 1 + Len(last.result.messages)

\* the maxSteps value a caller supplied, to initialize or to the constructor,
\* and 15 when it supplied none
SuppliedMaxSteps(constructorConfig, initializeConfig) ==
  IF OptField(initializeConfig, "maxSteps").t = "num"
    THEN OptField(initializeConfig, "maxSteps").n
  ELSE IF OptField(constructorConfig, "maxSteps").t = "num"
    THEN OptField(constructorConfig, "maxSteps").n
  ELSE 15

\* C23: the step ceiling bound to the command-line program's reasoning
\* session is the maxSteps value main configured, and 15 when it configured
\* none.
C23_StepCeilingAsConfigured ==
  (agent # Null) => agent.maxSteps = SuppliedMaxSteps(CliAgentConfig, CliConfig)

(***************************************************************************)
(* Claims about the command-line program and the test runner.              *)
(***************************************************************************)
\* C24: the step in which a chat turn completes replaces the history by the
\* truncation of the history with that turn's response messages appended,
\* and it does so while no chat turn of the agent is in flight.
C24_TruncationBetweenTurns ==
  [][CliChatResolve =>
       /\ \E result \in GenerateResults :
             messages' = truncateHistory(messages \o result.messages)
       /\ ChatsInFlight' = {}]_vars

(***************************************************************************)
(* SpecCapture: one chat call of a Ready agent whose reasoning session     *)
(* returns a step list of at most MaxSteps steps of ReportedSteps          *)
(* (agent.ts 344-404), followed by getLastTrace and processAgentTrace as   *)
(* runTestCase calls them (agent.ts 1918-1919).  driver.result is what     *)
(* generate returns.                                                       *)
(***************************************************************************)
\* a call and a result as the session reports them, with their identifier
IdCall(id, name, args) ==
  Obj([toolCallId |-> Str(id), toolName |-> Str(name), args |-> args])
IdResult(id, input, output) ==
  Obj([toolCallId |-> Str(id), input |-> input, output |-> output])

ReportedSteps ==
  {Step(<<>>, <<>>),
   Step(<<IdCall(<<"a">>, getQueryExamples, Obj([category |-> Str(<<"c">>)])),
          IdCall(<<"b">>, queryVCData, SqlArgs)>>,
        <<IdResult(<<"b">>, SqlArgs, Rows),
          IdResult(<<"a">>, Undefined, Str(<<"e">>))>>),
   Step(<<Call(queryVCData, SqlArgs), Call(queryVCData, SqlArgs)>>,
        <<ToolResult(SqlArgs, Bool(FALSE))>>),
   Obj([toolCalls |-> Arr(<<Call(getDatasetContext, Undefined)>>)]),
   Obj([toolResults |-> Arr(<<ToolResult(SqlArgs, Rows)>>)]),
   Step(<<Call(queryVCData, Obj([sql |-> Str(<<>>)])),
          Call(listDatasetTables, SqlArgs)>>,
        <<>>),
   Step(<<Null>>, <<>>)}

RECURSIVE StepLists(_)
StepLists(n) ==
  IF n = 0 THEN {<<>>}
  ELSE StepLists(n - 1) \cup
       {Append(l, s) : l \in {g \in StepLists(n - 1) : Len(g) = n - 1},
                       s \in ReportedSteps}

CaptureInit ==
  /\ mcpClient = 1
  /\ agent = [conn |-> 1, maxSteps |-> DEFAULT_MAX_STEPS]
  /\ messages = <<>>
  /\ trace = <<>>
  /\ arrays = <<>>
  /\ pending = {}
  /\ held = NoHeld
  /\ opened = 1
  /\ closeCalls = <<0>>
  /\ turns = 0
  /\ owners = <<>>
  /\ last = NoLast
  /\ stats = ZeroStats
  /\ \E steps \in StepLists(MaxSteps) :
        driver = [kind |-> "capture", pc |-> "start",
                  processed |-> NoProcessed,
                  result |-> [text |-> Str(AnswerText), steps |-> Arr(steps),
                              messages |-> <<AssistantMessage>>]]

\* await agent.chat(question): up to the await of generate
CaptureChat ==
  /\ driver.pc = "start"
  /\ ChatCall("capture", Question1)
  /\ driver' = [driver EXCEPT !.pc = "chatting"]
  /\ UNCHANGED <<held, last, stats>>

\* generate resolved with driver.result and chat returned
CaptureChatResolve ==
  /\ driver.pc = "chatting"
  /\ \E p \in pending : ChatResolve(p, driver.result)
  /\ driver' = [driver EXCEPT !.pc = "returned"]
  /\ UNCHANGED <<held, last, stats>>

\* generate resolved with driver.result and the trace capture raised
CaptureChatThrows ==
  /\ driver.pc = "chatting"
  /\ \E p \in pending : ChatCaptureThrows(p, driver.result)
  /\ driver' = [driver EXCEPT !.pc = "threw"]
  /\ UNCHANGED <<held, last, stats>>

\* const agentTrace = agent.getLastTrace(); processAgentTrace(agentTrace)
CaptureProcess ==
  /\ driver.pc = "returned"
  /\ driver' = [driver EXCEPT !.pc = "processed",
                              !.processed = processAgentTrace(getLastTrace.list)]
  /\ UNCHANGED <<mcpClient, agent, messages, trace, arrays, pending, held,
                 opened, closeCalls, turns, owners, last, stats>>

CaptureNext ==
  \/ CaptureChat \/ CaptureChatResolve \/ CaptureChatThrows \/ CaptureProcess

SpecCapture == CaptureInit /\ [][CaptureNext]_vars

\* the tool invocations a step list reports, by step and then by position
RECURSIVE Invocations(_, _)
Invocations(steps, k) ==
  IF k > Len(steps) THEN <<>>
  ELSE (IF OptField(steps[k], "toolCalls").t = "arr"
          THEN [i \in 1..Len(steps[k].f.toolCalls.a) |-> [step |-> k, pos |-> i]]
          ELSE <<>>)
       \o Invocations(steps, k + 1)

\* C25: the turn trace holds one record per tool invocation of the step list,
\* by step and then by position; the record of the i-th invocation of a step
\* carries that call's name, and its input and output are those of the i-th
\* entry of the step's results (the call's arguments and null standing in
\* for what that entry does not give).
C25_RecordsPairedByPosition ==
  (driver.pc = "returned") =>
     LET steps == driver.result.steps.a
         inv == Invocations(steps, 1)
         records == getLastTrace.list
     IN  /\ Len(records) = Len(inv)
         /\ \A n \in DOMAIN inv :
               LET step == steps[inv[n].step]
                   call == step.f.toolCalls.a[inv[n].pos]
                   entry == OptIndex(OptField(step, "toolResults"), inv[n].pos - 1)
               IN  /\ records[n].toolName = call.f.toolName
                   /\ \/ records[n].input = OptField(entry, "input")
                      \/ /\ ~Truthy(OptField(entry, "input"))
                         /\ records[n].input = OptField(call, "args")
                   /\ \/ records[n].output = OptField(entry, "output")
                      \/ /\ ~Truthy(OptField(entry, "output"))
                         /\ records[n].output = Null

C25_Witness ==
  /\ driver.pc = "returned"
  /\ Len(driver.result.steps.a) = 2
  /\ LET records == getLastTrace.list
     IN  /\ Len(records) = 4
         /\ records[1].toolName = Str(queryVCData)
         /\ records[2].output = Null
         /\ records[3].toolName = Str(getQueryExamples)
         /\ records[3].input = SqlArgs
         /\ records[3].output = Rows
         /\ records[4].toolName = Str(queryVCData)
         /\ records[4].output = Str(<<"e">>)
         /\ driver.result.steps.a[2].f.toolResults.a[1].f.toolCallId
              = driver.result.steps.a[2].f.toolCalls.a[2].f.toolCallId

\* C26: the stepNumber of every record is the 1-based index, in the turn's
\* step list, of the step that reported the call.
C26_StepNumberIsStepIndex ==
  (driver.pc = "returned") =>
     LET inv == Invocations(driver.result.steps.a, 1)
         records == getLastTrace.list
     IN  \A n \in DOMAIN records : records[n].stepNumber = inv[n].step

\* the query texts of the records at the positions idx, in call order
QueriesAt(records, idx) ==
  [j \in 1..Cardinality(idx) |->
     records[CHOOSE n \in idx : Cardinality({m \in idx : m <= n}) = j].input.f.sql]

\* the queryVCData calls whose recorded input has a non-empty sql text
QueryCalls(records) ==
  {n \in DOMAIN records :
     /\ records[n].toolName = Str(queryVCData)
     /\ Truthy(OptField(records[n].input, "sql"))}

\* the work calls whose recorded input has an sql field
WorkCallsWithSql(records) ==
  {n \in WorkNames(records) :
     records[n].input.t = "obj" /\ "sql" \in DOMAIN records[n].input.f}

\* C27 as amended: the extracted list holds the sql text of every queryVCData
\* call whose recorded input has a non-empty sql text, one entry per call,
\* in call order; calls of other tools give no entry.
C27_QueriesOfQueryCalls ==
  (driver.pc = "processed") =>
     driver.processed.sqlQueries =
       QueriesAt(getLastTrace.list, QueryCalls(getLastTrace.list))

C27_Witness ==
  /\ driver.pc = "processed"
  /\ Len(getLastTrace.list) = 4
  /\ driver.processed.sqlQueries = <<Str(SqlText), Str(SqlText)>>
  /\ getLastTrace.list[3].input = Obj([sql |-> Str(<<>>)])
  /\ getLastTrace.list[4].toolName = Str(listDatasetTables)
  /\ getLastTrace.list[4].input = SqlArgs

\* C27 as stated: the extracted list holds the query text of every work call
\* whose recorded input has a query-text field, one entry per call, in call
\* order.
C27_QueriesOfWorkCalls ==
  (driver.pc = "processed") =>
     driver.processed.sqlQueries =
       QueriesAt(getLastTrace.list, WorkCallsWithSql(getLastTrace.list))

(***************************************************************************)
(* Claims about the test runner (SpecRun).  Test case k is sent in the     *)
(* agent's k-th chat call, whose turn trace is arrays[k].                  *)
(***************************************************************************)
\* the result was built by runTestCase's catch block
IsCrashResult(result) ==
  result.reasoning.t = "str" /\ IsPrefix(CrashPrefix, result.reasoning.s)

\* C28: the tools_called_num of the result of a test case that did not crash
\* is the number of records of that test case's own turn trace whose tool
\* is not a context tool.
C28_CountsOwnTurn ==
  \A i \in DOMAIN driver.results :
     ~IsCrashResult(driver.results[i]) =>
        /\ i \in DOMAIN arrays
        /\ driver.results[i].tools_called_num = Cardinality(WorkNames(arrays[i]))

C28_Witness ==
  /\ Len(driver.results) = 2
  /\ ~IsCrashResult(driver.results[1])
  /\ ~IsCrashResult(driver.results[2])
  /\ driver.results[1].tools_called_num = 3
  /\ driver.results[2].tools_called_num = 1
  /\ Len(arrays[1]) = 4
  /\ Len(arrays[2]) = 2

IsUserMessage(msg) == msg.role = "user"

\* C29: a run opens at most one connection; while a test case is under way
\* the agent is the session of that one initialize, on a connection whose
\* close was not invoked, and the history sent for test case k holds the
\* questions of the test cases 1..k, in order; once the run has ended, the
\* close of the connection has been invoked exactly once.
C29_OneAgentPerRun ==
  /\ opened <= 1
  /\ \A c \in 1..opened : closeCalls[c] <= 1
  /\ (driver.pc \in {"loop", "chatting", "judging", "delay"}) =>
        /\ opened = 1 /\ mcpClient = 1 /\ closeCalls[1] = 0
        /\ agent # Null /\ agent.conn = 1
  /\ (driver.pc = "chatting") =>
        SelectSeq(messages, IsUserMessage) =
          [j \in 1..driver.i |-> UserMessage(driver.testCases[j].question)]
  /\ (ChatsInFlight # {}) => driver.pc = "chatting"
  /\ (driver.pc \in {"ended", "exited"}) =>
        \A c \in 1..opened : closeCalls[c] = 1

C29_Witness ==
  /\ driver.pc = "exited"
  /\ Len(driver.results) = 2
  /\ closeCalls = <<1>>
  /\ turns = 2
  /\ SelectSeq(messages, IsUserMessage) =
       <<UserMessage(Question1), UserMessage(Question2)>>
  /\ Len(messages) > 4

(***************************************************************************)
(* SpecExtract: extractJSON (holistic-evaluator.ts 19-27) and the          *)
(* JSON.parse that evaluateHolistically applies to its result, on a text   *)
(* the judge returns.  A fenced text is before, an opening fence, the tag, *)
(* white space, a JSON text, white space, a closing fence and after; the   *)
(* other texts have no pair of fences.                                     *)
(***************************************************************************)
RECURSIVE Blanks(_)
Blanks(n) ==
  IF n = 0 THEN {<<>>}
  ELSE Blanks(n - 1) \cup
       {Append(w, b) : w \in {v \in Blanks(n - 1) : Len(v) = n - 1},
                       b \in {Nl, Sp}}

\* what stands in front of the opening fence: nothing, prose, white space,
\* or prose with a fenced block of its own
Befores == {<<>>, <<Prose, Nl>>, <<Sp>>, <<Prose, Fence, Prose, Fence, Nl>>}
Afters == {<<>>, <<Nl, Prose>>, <<Nl, Fence, Prose, Fence>>}
JsonTexts == {<<Doc(Verdict(Str(PassText)))>>, <<Doc(Null)>>}

FencedInputs ==
  {[fenced |-> TRUE, before |-> before, json |-> json,
    text |-> before \o <<Fence>> \o tag \o lead \o json \o trail
               \o <<Fence>> \o after] :
     before \in Befores, tag \in {<<>>, <<Tag>>}, lead \in Blanks(MaxBlanks),
     json \in JsonTexts, trail \in Blanks(MaxBlanks), after \in Afters}

\* the texts without a pair of fences: nothing, prose, a bare JSON text, prose
\* in front of one, an opening fence that is not closed
UnfencedBodies(json) ==
  {<<>>, <<Prose>>, json, <<Prose, Sp>> \o json, <<Fence, Tag, Nl>> \o json}

UnfencedInputs ==
  UNION {{[fenced |-> FALSE, before |-> <<>>, json |-> json,
           text |-> lead \o body \o trail] :
            lead \in Blanks(MaxBlanks), trail \in Blanks(MaxBlanks),
            body \in UnfencedBodies(json)} : json \in JsonTexts}

ExtractInit ==
  /\ AgentInit
  /\ \E input \in FencedInputs \cup UnfencedInputs :
        driver = [kind |-> "extract", pc |-> "start", input |-> input,
                  extracted |-> <<>>, evaluation |-> SyntaxError]

\* extractJSON(result.text)
ExtractApply ==
  /\ driver.pc = "start"
  /\ driver' = [driver EXCEPT !.pc = "extracted",
                              !.extracted = extractJSON(driver.input.text)]
  /\ UNCHANGED <<mcpClient, agent, messages, trace, arrays, pending, held,
                 opened, closeCalls, turns, owners, last, stats>>

\* JSON.parse(...) of what extractJSON returned
ExtractParse ==
  /\ driver.pc = "extracted"
  /\ driver' = [driver EXCEPT !.pc = "parsed",
                              !.evaluation = JsonParse(driver.extracted)]
  /\ UNCHANGED <<mcpClient, agent, messages, trace, arrays, pending, held,
                 opened, closeCalls, turns, owners, last, stats>>

ExtractNext == ExtractApply \/ ExtractParse

SpecExtract == ExtractInit /\ [][ExtractNext]_vars

HasFence(text) == \E i \in DOMAIN text : text[i].k = "fence"

\* C30 as amended: extractJSON returns the JSON text, trimmed, of a fenced
\* text whose part in front of the opening fence has no fence, and the whole
\* text, trimmed, of a text without a pair of fences.
C30_FenceStrippingRoundTrip ==
  (driver.pc # "start") =>
     /\ (driver.input.fenced /\ ~HasFence(driver.input.before)) =>
           /\ driver.extracted = Trim(driver.input.json)
           /\ (driver.pc = "parsed") => driver.evaluation = driver.input.json[1].v
     /\ (~driver.input.fenced) => driver.extracted = Trim(driver.input.text)

C30_Witness ==
  /\ driver.pc = "parsed"
  /\ driver.input.text =
       <<Prose, Nl, Fence, Tag, Nl, Doc(Verdict(Str(PassText))), Nl, Fence,
         Nl, Prose>>
  /\ driver.extracted = <<Doc(Verdict(Str(PassText)))>>
  /\ driver.evaluation = Verdict(Str(PassText))

\* C30 as stated: extractJSON returns the JSON text, trimmed, of every fenced
\* text, whatever surrounds the fences, and the whole text, trimmed, of a
\* text without a pair of fences.
C30_FenceStrippingAnyProse ==
  (driver.pc # "start") =>
     /\ driver.input.fenced => driver.extracted = Trim(driver.input.json)
     /\ (~driver.input.fenced) => driver.extracted = Trim(driver.input.text)

(***************************************************************************)
(* SpecRunFair: SpecRun when every external call (connection, tool         *)
(* listing, reasoning session, judge, close, the delay timer) eventually   *)
(* returns or throws and the runner's own steps are taken.                 *)
(***************************************************************************)
SpecRunFair == RunInit /\ [][RunNext]_vars /\ WF_vars(RunNext)

C32_TurnBlocksContiguous ==
  \A i \in 1..Len(owners) : \A j \in i..Len(owners) :
    owners[i] = owners[j] => \A k \in i..j : owners[k] = owners[i]

\* C33: once clearHistory has run, the history holds no message and the
\* session trace no turn trace of a chat turn that started before the clear.
C33_ClearDropsEarlierTurns ==
  last.op = "clearHistory" =>
    /\ \A i \in 1..Len(owners) : owners[i] > last.turn
    /\ \A k \in 1..Len(trace) : trace[k] > last.turn

\* C34: a chat call that failed (not initialized, generate rejected, or the
\* trace capture raised) leaves the session trace as it was when the call
\* began, and getLastTrace still returns the turn trace it returned before.
C34_FailedChatKeepsTrace ==
  (/\ Idle
   /\ last.op = "chat"
   /\ last.outcome \in {"notInitialized", "generateThrew", "captureThrew"})
    => /\ TraceValue = last.traceBefore
       /\ getLastTrace.list = last.lastBefore

C34_Witness ==
  /\ Idle
  /\ last.op = "chat"
  /\ last.outcome \in {"generateThrew", "captureThrew"}
  /\ Len(trace) = 1
  /\ getLastTrace.list # <<>>
  /\ getLastTrace.list = last.lastBefore

\* C35: the close operation of a connection the CLI's agent established is
\* invoked at most once, however the closing handlers overlap.
C35_CloseInvokedOnce == \A c \in 1..opened : closeCalls[c] <= 1

\* C36: between calls, every connection the agent instance has opened, except
\* possibly the one it currently holds, has had its close invoked; after a
\* close that returned (no connection held) none is left open.
C36_OneOpenConnection ==
  Idle => \A c \in 1..opened : c # mcpClient => closeCalls[c] >= 1

\* C37: the turn trace of a chat that returned holds the records as captured,
\* outputs uncut, although truncateHistory ran in the same call; and no step
\* of the agent changes a turn trace that the session trace still holds.
C37_TruncationSparesTrace ==
  /\ []((last.op = "chat" /\ last.outcome = "ok" /\ last.turn \in DOMAIN arrays)
          => arrays[last.turn] = CaptureTrace(last.result))
  /\ [][\A k \in DOMAIN trace :
          (trace[k] \in DOMAIN arrays /\ trace[k] \in DOMAIN arrays')
            => arrays'[trace[k]] = arrays[trace[k]]]_vars

C37_Witness ==
  /\ Idle
  /\ Len(trace) = 2
  /\ last.op = "chat" /\ last.outcome = "ok"
  /\ Len(arrays[trace[1]]) = 1
  /\ arrays[trace[1]][1].output = Rows
  /\ truncateDeep(Rows) # Rows
  /\ \E i \in DOMAIN messages :
        /\ messages[i].role = "tool"
        /\ messages[i].content.a[1].f.result = truncateDeep(Rows)

(***************************************************************************)
(* SpecPrompt: the prompt evaluateHolistically builds for the judge        *)
(* (holistic-evaluator.ts 74-93), then the judge's reply.  A text is a     *)
(* sequence of pieces; a placeholder name, and each dollar-sign pattern    *)
(* of String.prototype.replace, is one piece.                              *)
(***************************************************************************)
MaxQueries == 2

PQuestion == "{question}"
PExpectedPath == "{expectedPathDescription}"
PExpectedAnswer == "{expectedAnswer}"
PToolCallsUsed == "{toolCallsUsed}"
PMaxToolCalls == "{maxToolCalls}"
PToolCallNames == "{toolCallNames}"
PSqlQueriesCount == "{sqlQueriesCount}"
PSqlQueries == "{sqlQueries}"
PActualAnswer == "{actualAnswer}"

\* the rubric template getPrompt('holistic_evaluator') returns: the rubric text
\* with one placeholder per value, in the order of the rubric
promptTemplate ==
  <<"Question:", PQuestion, "Approach:", PExpectedPath,
    "Example:", PExpectedAnswer, "Tools:", PToolCallsUsed, "of", PMaxToolCalls,
    PToolCallNames, "Queries:", PSqlQueriesCount, PSqlQueries,
    "Answer:", PActualAnswer, "Rubric">>

\* index of the first occurrence of the pattern in the text, 0 when absent
RECURSIVE IndexFrom(_, _, _)
IndexFrom(text, pattern, k) ==
  IF k > Len(text) THEN 0
  ELSE IF text[k] = pattern THEN k
  ELSE IndexFrom(text, pattern, k + 1)

\* the replacement text as replace inserts it: $$ is a dollar sign, $& the
\* matched text, $` the text before the match, $' the text after it
RECURSIVE Expand(_, _, _, _)
Expand(replacement, matched, before, after) ==
  IF replacement = <<>> THEN <<>>
  ELSE (CASE Head(replacement) = "$$" -> <<"$">>
          [] Head(replacement) = "$&" -> <<matched>>
          [] Head(replacement) = "$`" -> before
          [] Head(replacement) = "$'" -> after
          [] OTHER -> <<Head(replacement)>>)
       \o Expand(Tail(replacement), matched, before, after)

\* text.replace(pattern, replacement) with a string pattern: the first
\* occurrence only
Replace(text, pattern, replacement) ==
  LET k == IndexFrom(text, pattern, 1)
      before == SubSeq(text, 1, k - 1)
      after == SubSeq(text, k + 1, Len(text))
  IN  IF k = 0 THEN text
      ELSE before \o Expand(replacement, pattern, before, after) \o after

\* parts.join(separator)
RECURSIVE Join(_, _)
Join(parts, separator) ==
  IF parts = <<>> THEN <<>>
  ELSE IF Len(parts) = 1 THEN parts[1]
  ELSE parts[1] \o separator \o Join(Tail(parts), separator)

\* sqlQueries.map((sql, i) => `Query ${i + 1}:\n${sql}`).join('\n\n') || 'None'
QueriesText(sqlQueries) ==
  LET joined == Join([i \in DOMAIN sqlQueries |->
                        <<"Query", ToString(i), ":", "NL">> \o sqlQueries[i]],
                     <<"NL", "NL">>)
  IN  IF joined = <<>> THEN <<"None">> ELSE joined

\* what each placeholder stands for
PromptValue(params, placeholder) ==
  CASE placeholder = PQuestion -> params.question
    [] placeholder = PExpectedPath -> params.expectedPathDescription
    [] placeholder = PExpectedAnswer -> params.expectedAnswer
    [] placeholder = PToolCallsUsed -> <<ToString(params.toolCallsUsed)>>
    [] placeholder = PMaxToolCalls -> <<ToString(params.maxToolCalls)>>
    [] placeholder = PToolCallNames -> Join(params.toolCallNames, <<"->">>)
    [] placeholder = PSqlQueriesCount -> <<ToString(Len(params.sqlQueries))>>
    [] placeholder = PSqlQueries -> QueriesText(params.sqlQueries)
    [] OTHER -> params.actualAnswer

\* the order of the .replace calls
PromptPlaceholders ==
  <<PQuestion, PExpectedPath, PExpectedAnswer, PToolCallsUsed, PMaxToolCalls,
    PToolCallNames, PSqlQueriesCount, PSqlQueries, PActualAnswer>>

\* promptTemplate.replace(...).replace(...) ... : the first k replace calls
RECURSIVE FillFirst(_, _, _)
FillFirst(template, params, k) ==
  IF k = 0 THEN template
  ELSE Replace(FillFirst(template, params, k - 1), PromptPlaceholders[k],
               PromptValue(params, PromptPlaceholders[k]))

BuildPrompt(params) == FillFirst(promptTemplate, params, Len(PromptPlaceholders))

PromptTexts ==
  {<<"w">>, <<"w", PActualAnswer>>, <<"$&">>, <<"US", "$$", "w">>}
SqlTexts == {<<"SELECT">>, <<"$'">>}
SqlLists == UNION {[1..n -> SqlTexts] : n \in 0..MaxQueries}
NameLists == {<<>>, <<<<"getDatasetContext">>, <<"queryVCData">>>>}

PromptParams ==
  [question : PromptTexts, expectedPathDescription : PromptTexts,
   expectedAnswer : PromptTexts, actualAnswer : PromptTexts,
   sqlQueries : SqlLists, toolCallNames : NameLists,
   toolCallsUsed : {2}, maxToolCalls : {1}]

PromptInit ==
  /\ AgentInit
  /\ \E params \in PromptParams :
        driver = [kind |-> "prompt", pc |-> "start", params |-> params,
                  prompt |-> <<>>, evaluation |-> NoReply]

\* evaluateHolistically up to `await generateText({model, prompt})`
PromptBuild ==
  /\ driver.pc = "start"
  /\ driver' = [driver EXCEPT !.pc = "judging",
                              !.prompt = BuildPrompt(driver.params)]
  /\ UNCHANGED <<mcpClient, agent, messages, trace, arrays, pending, held,
                 opened, closeCalls, turns, owners, last, stats>>

\* the judge answered or the call rejected: extractJSON, JSON.parse, return
PromptJudged ==
  /\ driver.pc = "judging"
  /\ \E reply \in JudgeReplies :
        driver' = [driver EXCEPT !.pc = "judged",
                                 !.evaluation = evaluateHolistically(reply)]
  /\ UNCHANGED <<mcpClient, agent, messages, trace, arrays, pending, held,
                 opened, closeCalls, turns, owners, last, stats>>

PromptNext == PromptBuild \/ PromptJudged

SpecPrompt == PromptInit /\ [][PromptNext]_vars

\* the template with every placeholder replaced by the text of its own value
RECURSIVE Verbatim(_, _)
Verbatim(template, params) ==
  IF template = <<>> THEN <<>>
  ELSE (IF \E k \in DOMAIN PromptPlaceholders :
              PromptPlaceholders[k] = Head(template)
          THEN PromptValue(params, Head(template))
          ELSE <<Head(template)>>)
       \o Verbatim(Tail(template), params)

\* C38: the prompt sent to the judge is the rubric template with each
\* placeholder replaced by the literal text of its own value, whatever the
\* values contain.
C38_PromptIsVerbatimFill ==
  (driver.pc # "start") => driver.prompt = Verbatim(promptTemplate, driver.params)

\* C39: the evaluation run exits with status 0 only if every result of the run
\* has grade 'pass'.
C39_ExitZeroOnlyIfAllPass ==
  (driver.pc = "exited" /\ driver.code = 0) =>
     \A i \in DOMAIN driver.results : driver.results[i].grade = Str(PassText)

====
